---- MODULE Spec2Model ----
(***************************************************************************)
(* The Wookiee Unicaster (src/wookiee_unicaster.py): a UDP relay made of a *)
(* server instance (admission worker, three workers per slot) and a client *)
(* instance (four workers per slot), each with a main supervisor.  Every   *)
(* process of the program is a state machine here; a process's position is *)
(* its pc, one action is one pass from a blocking call to the next one.    *)
(***************************************************************************)
EXTENDS Integers, Sequences, FiniteSets, TLC

(* ---------------------------------------------------------------- bounds *)
\* Spec: payloads the remote peer sends, payloads the endpoint sends back,
\* handler restarts of the two supervisors together
MaxSend == 2
MaxReply == 1
MaxRestarts == 1
\* SpecServer: payloads one remote peer sends and all of them together, the
\* keep-alives and the payloads of the far end of the tunnel, handler restarts
ServerMaxSend == 2
ServerMaxSends == 3
ServerMaxPing == 1
ServerMaxData == 1
ServerMaxRestarts == 1
\* SpecForge: payloads the remote peer sends, reserved payloads it forges,
\* handler restarts
ForgeMaxSend == 1
MaxForge == 1
ForgeMaxRestarts == 1
\* SpecIsolation: payloads one remote peer sends and all of them together,
\* keep-alives of the far end of the tunnel
IsolationMaxSend == 2
IsolationMaxSends == 4
IsolationMaxPing == 2
\* SpecTimed: payloads one remote peer sends and all of them together,
\* keep-alives of the far end of the tunnel
TimedMaxSend == 2
TimedMaxSends == 4
TimedMaxPing == 1
\* SpecQuarantine: payloads the remote peer sends, keep-alive payloads it
\* sends, handler restarts
QuarantineMaxSend == 2
QuarantineMaxForge == 1
QuarantineMaxRestarts == 2
\* SpecFifo: payloads the remote peer sends, the keep-alives and the
\* payloads of the far end of the tunnel, handler restarts, capacity of the
\* packet queues
FifoMaxSend == 3
FifoMaxPing == 2
FifoMaxData == 2
FifoMaxRestarts == 1
FifoQueueSize == 2
\* SpecSingle: payloads one remote peer sends, payloads of all peers, the
\* keep-alives and the payloads of the far end of the tunnel, handler restarts
SingleMaxSend == 2
SingleMaxSends == 3
SingleMaxPing == 1
SingleMaxData == 1
SingleMaxRestarts == 1
\* SpecHandshake: payloads the remote peer sends, datagrams of a stranger
HandshakeMaxSend == 2
HandshakeMaxForge == 1
\* SpecCache: payloads one remote peer sends and all of them together, the
\* keep-alives and the payloads of the far end of the tunnel, capacity of the
\* packet queues
CacheMaxSend == 1
CacheMaxSends == 3
CacheMaxPing == 1
CacheMaxData == 1
CacheQueueSize == 2
\* SpecServed: slots, reserved payloads the server sends, handler restarts
ServedPeers == 2
ServedMaxForge == 3
ServedMaxRestarts == 4
\* SpecWiring: the highest number of peers on the command line
WiringPeers == 3
\* SpecTarget: payloads the remote peer sends, datagrams a remote peer sends
\* to the relay port, keep-alives of the far end of the tunnel, handler
\* restarts
TargetMaxSend == 2
TargetMaxProbe == 2
TargetMaxPing == 1
TargetMaxRestarts == 1
\* SpecCount: slots, datagrams the server sends to one slot
CountPeers == 2
CountMaxDown == 2
\* SpecShutdown: payloads the remote peer sends, the keep-alives and the
\* payloads of the far end of the tunnel, handler restarts
ShutdownMaxSend == 2
ShutdownMaxPing == 1
ShutdownMaxData == 1
ShutdownMaxRestarts == 1
\* datagrams a socket's receive buffer holds (senders wait for room)
SockBuf == 1
\* two settings of the configuration file, scaled down: the capacity of a
\* slot's queues (256 by default) and the idle time, in clock units, after
\* which the admission worker purges its map (60 s by default)
PACKET_QUEUE_SIZE == 1
SERVER_PEER_CONNECTION_TIMEOUT == 1

(* ------------------------------------------------------ program constants *)
PORTS_RANGE == <<1024, 65535>>
SERVER_RELAY_BASE_PORT == 23000
CLIENT_RELAY_BASE_PORT == 23100
iport == 27015
oport == 27016
KEEP_ALIVE_PACKET == "-=|-WU-KEEP-ALIVE-|=-"
KEEP_ALIVE_HALT_PACKET == "-=|-WU-HALT-KEEP-ALIVE-|=-"
WOOKIEE_MODE_CLIENT == "0"
WOOKIEE_MODE_SERVER == "1"

Roles == {WOOKIEE_MODE_CLIENT, WOOKIEE_MODE_SERVER}
ReceiveModes == {"000", "010", "110"}
RelayModes == {"001", "011", "101", "111"}
Modes == ReceiveModes \cup RelayModes
ModesOf(role) == IF role = WOOKIEE_MODE_CLIENT THEN {"000", "001", "010", "011"}
                 ELSE {"101", "110", "111"}
RoleOf(mode) == IF mode \in {"000", "001", "010", "011"} THEN WOOKIEE_MODE_CLIENT
                ELSE WOOKIEE_MODE_SERVER
IsSourceReceive(mode) == mode = "000"
IsDestinationReceive(mode) == mode \in {"010", "110"}
IsSourceRelay(mode) == mode \in {"001", "101"}
IsDestinationRelay(mode) == mode \in {"011", "111"}

(* -------------------------------------------------------------- addresses *)
\* an address is <<ip, port>>, the ip a dotted quad (first octets below 128
\* keep the 32-bit value of an address within the checker's integers)
local_ip_server == <<10, 0, 0, 1>>
local_ip_client == <<10, 8, 0, 5>>
destination_ip == <<10, 8, 0, 50>>
PeerNames == {"A", "B", "C"}
PeerAddr(p) == CASE p = "A" -> <<<<100, 64, 0, 1>>, 40001>>
                 [] p = "B" -> <<<<100, 64, 0, 2>>, 40002>>
                 [] OTHER   -> <<<<100, 64, 0, 3>>, 40003>>
PeerBodies(p) == CASE p = "A" -> <<"A1", "A2", "A3", "A4">>
                   [] p = "B" -> <<"B1", "B2", "B3", "B4">>
                   [] OTHER   -> <<"C1", "C2", "C3", "C4">>
EndpointBodies == <<"E1", "E2", "E3", "E4">>
NoAddr == <<<<0, 0, 0, 0>>, 0>>
\* a host that is neither instance, nor a remote peer, nor the endpoint
StrangerAddr == <<<<100, 64, 0, 99>>, 40099>>

\* struct.unpack('!L', socket.inet_aton(ip))[0]
inet_aton(ip) == ip[1] * 16777216 + ip[2] * 65536 + ip[3] * 256 + ip[4]
\* socket.inet_ntoa(struct.pack('!L', n))
inet_ntoa(n) == <<(n \div 16777216) % 256, (n \div 65536) % 256, (n \div 256) % 256, n % 256>>
\* Python's  addr == (0, 0)  for addr = (inet_ntoa(..), port): the first
\* component is a str, which never equals the int 0
EqualsZeroPair(addr) == FALSE

\* the sockets main binds: the port wiring of the per-slot loop
ServerSocket == <<local_ip_server, iport>>
ServerRelay(k) == <<local_ip_server, SERVER_RELAY_BASE_PORT + k>>
ClientSource(k) == <<local_ip_client, SERVER_RELAY_BASE_PORT + k>>
ClientRelay(k) == <<local_ip_client, CLIENT_RELAY_BASE_PORT + k>>
Endpoint == <<destination_ip, oport>>

\* the socket a worker reads (receive) or writes (relay)
SocketOf(mode, k) == CASE mode \in {"000", "011"} -> ClientSource(k)
                       [] mode \in {"001", "010"} -> ClientRelay(k)
                       [] mode \in {"101", "110"} -> ServerRelay(k)
                       [] OTHER -> ServerSocket
\* the iaddr / oaddr argument a worker is started with
ConfiguredAddr(mode, k) == CASE mode \in {"000", "011"} -> ServerRelay(k)
                             [] mode = "001" -> Endpoint
                             [] OTHER -> NoAddr

VARIABLES
  wiring,                   \* [role]: the port arguments and the ports __main__ derives
  peers,                    \* number of slots (-p)
  running,                  \* the instances that run: a subset of Roles
  clock_on,                 \* whether time is counted (else timeouts are free)
  queue_size,               \* capacity of every packet queue (PACKET_QUEUE_SIZE)
  remote_peer_event,        \* [role][k]
  link_event,               \* [role][k]
  exit_event,               \* [role][k]
  source_queue,             \* [role][k]: upstream queue
  destination_queue,        \* [role][k]: downstream queue
  remote_peer_addr_array,   \* shared memory of the server, [k]
  remote_peer_port_array,   \* shared memory of the server, [k]
  proc,                     \* [mode][k]: a slot worker's position and locals
  reset_queue,              \* [role]: remote_peer_handlers_reset_queue
  sup,                      \* [role]: the main supervisor
  restarts,                 \* [role]: restarts performed
  aw,                       \* the admission worker: position and locals
  child_proc_started_event,
  counters,                 \* [role]: the three shared statistics
  inbox,                    \* [address]: datagrams waiting at (or delivered to) it
  sent,                     \* [party]: data datagrams the environment has sent
  forged,                   \* reserved payloads the peers have forged
  idle                      \* time: the admission socket's wait and each peer's silence

vars == <<wiring, peers, running, clock_on, queue_size, remote_peer_event, link_event, exit_event,
          source_queue, destination_queue, remote_peer_addr_array,
          remote_peer_port_array, proc, reset_queue, sup, restarts, aw,
          child_proc_started_event, counters, inbox, sent, forged, idle>>

Slots == 1 .. peers
PacketSize(data) == Len(data)
Datagram(from, data) == [src |-> from, data |-> data]
\* the sockets the running instances read; any other address is a party of the
\* environment, whose inbox is the record of what was delivered to it
IsProgramSocket(addr) ==
  addr \in (IF WOOKIEE_MODE_SERVER \in running
             THEN {ServerSocket} \cup {ServerRelay(k) : k \in 1 .. peers} ELSE {})
           \cup (IF WOOKIEE_MODE_CLIENT \in running
                   THEN {ClientSource(k) : k \in 1 .. peers}
                          \cup {ClientRelay(k) : k \in 1 .. peers}
                   ELSE {})
HasRoom(net, addr) ==
  IF addr \in DOMAIN net /\ IsProgramSocket(addr) THEN Len(net[addr]) < SockBuf ELSE TRUE
\* osocket.sendto(data, addr): a datagram to an address nobody holds is lost
sendto(net, osocket, data, addr) ==
  IF addr \in DOMAIN net THEN [net EXCEPT ![addr] = Append(@, Datagram(osocket, data))]
  ELSE net
\* a variant of the test below: a queue without a bound
FullNever(q) == FALSE
\* whether put finds the queue at its capacity
Full(q) == Len(q) >= queue_size

\* a worker's locals: armed (the socket timeout of the pending read), held
\* (idata / kadata), addr (kaaddr / oaddr), pcr (peer_connection_received),
\* cached (remote_peer_addr_cached), seen (the counter value read by  += 1)
NewProc == [pc |-> "start", armed |-> FALSE, held |-> "", addr |-> NoAddr,
            pcr |-> FALSE, cached |-> FALSE, seen |-> 0]
NoProc == [NewProc EXCEPT !.pc = "none"]
is_alive(w) == w.pc \notin {"none", "done", "crashed"}

Server == WOOKIEE_MODE_SERVER
Client == WOOKIEE_MODE_CLIENT
Range(f) == {f[x] : x \in DOMAIN f}
EmptyDict == [a \in {} |-> 0]
Lowest(S) == CHOOSE x \in S : \A y \in S : x <= y
RECURSIVE Sum(_, _)
Sum(f, S) == IF S = {} THEN 0 ELSE LET x == CHOOSE y \in S : TRUE IN f[x] + Sum(f, S \ {x})
Total(f) == Sum(f, DOMAIN f)

(* ------------------------------------------------- the admission worker *)
\* the two arrays as the admission worker's names denote them: the shared
\* memory, or, once the idle purge has rebound the names, its own lists
AwAddrArray == IF aw.rebound THEN aw.addr_list ELSE remote_peer_addr_array
AwPortArray == IF aw.rebound THEN aw.port_list ELSE remote_peer_port_array

\* a variant of the test below: the scan vacates every slot
VacateAny(v) == TRUE

\* the test that decides whether the scan vacates slot v
VacateTest(v) == ~remote_peer_event[Server][v]

\* a variant of the body below: the slot is marked vacant, its address stays
\* in the map
VacateSlotKeepsEntry(v, st) ==
  [st EXCEPT !.addr[v] = 0, !.port[v] = 0, !.vacancy[v] = TRUE]

\* the body of the scan for one slot: del, zero the entries, mark vacant;
\* a KeyError leaves the slot as it is
VacateSlot(v, st) ==
  LET vaddr == <<inet_ntoa(st.addr[v]), st.port[v]>>
  IN IF ~EqualsZeroPair(vaddr) /\ vaddr \in DOMAIN st.dict
       THEN [st EXCEPT !.dict = [a \in (DOMAIN st.dict) \ {vaddr} |-> st.dict[a]],
                       !.addr[v] = 0, !.port[v] = 0, !.vacancy[v] = TRUE]
       ELSE st

\* for vacate_queue_index in range(peers)
RECURSIVE VacateScan(_, _)
VacateScan(v, st) ==
  IF v > peers THEN st
  ELSE VacateScan(v + 1, IF VacateTest(v) THEN VacateSlot(v, st) ELSE st)

\* the admission of a new address into slot q
AdmitInto(q, iaddr, st) ==
  [st EXCEPT !.dict = [a \in (DOMAIN st.dict) \cup {iaddr} |->
                         IF a = iaddr THEN q ELSE st.dict[a]],
             !.addr[q] = inet_aton(iaddr[1]), !.port[q] = iaddr[2],
             !.vacancy[q] = FALSE, !.rpe[q] = TRUE, !.index = q]

\* the state the admission worker works on when it reads a datagram
AwState ==
  [dict |-> aw.dict, vacancy |-> aw.vacancy, addr |-> AwAddrArray,
   port |-> AwPortArray, rpe |-> remote_peer_event[Server], index |-> 0]

\* that state after the eviction scan, before the vacancy lookup
Scanned == VacateScan(1, AwState)

\* the shared arrays at that point: the scan has written them unless the
\* idle purge has rebound the worker's names
SharedAddrScanned == IF aw.rebound THEN remote_peer_addr_array ELSE Scanned.addr
SharedPortScanned == IF aw.rebound THEN remote_peer_port_array ELSE Scanned.port

\* a variant of the function below: a known address does not get its flag
\* set again
AdmissionKeepsFlag(iaddr) ==
  IF iaddr \in DOMAIN aw.dict
    THEN [AwState EXCEPT !.index = aw.dict[iaddr]]
    ELSE LET st1 == IF TRUE \notin Range(aw.vacancy) THEN Scanned ELSE AwState
             free == {k \in Slots : st1.vacancy[k]}
         IN IF free = {} THEN st1 ELSE AdmitInto(Lowest(free), iaddr, st1)

\* what one datagram from iaddr does to the admission state; index is the
\* queue it is put on, 0 when the vacancy lookup raises ValueError
Admission(iaddr) ==
  LET st0 == [dict |-> aw.dict, vacancy |-> aw.vacancy, addr |-> AwAddrArray,
              port |-> AwPortArray, rpe |-> remote_peer_event[Server], index |-> 0]
  IN IF iaddr \in DOMAIN aw.dict
       THEN [st0 EXCEPT !.index = aw.dict[iaddr], !.rpe[aw.dict[iaddr]] = TRUE]
       ELSE LET st1 == IF TRUE \notin Range(st0.vacancy) THEN VacateScan(1, st0) ELSE st0
                free == {k \in Slots : st1.vacancy[k]}
            IN IF free = {} THEN st1 ELSE AdmitInto(Lowest(free), iaddr, st1)

\* while not remote_peer_worker_exit_event.is_set(): ... settimeout
AwLoopTop(a) ==
  IF a.exit THEN [a EXCEPT !.pc = "done", !.held = "", !.index = 0]
  ELSE [a EXCEPT !.pc = "recv", !.held = "", !.index = 0,
                 !.timeout = (DOMAIN a.dict # {}) \/ a.timeout]

CountInbound(c, data) ==
  [c EXCEPT !.source_packet_count = @ + 1,
            !.max_packet_size = IF PacketSize(data) > @ THEN PacketSize(data) ELSE @]

\* a variant of the step below: the worker enters its loop without waiting
wookiee_server_worker_begin_unheld ==
  /\ aw.pc = "wait_started"
  /\ aw' = AwLoopTop(aw)
  /\ UNCHANGED <<wiring, peers, running, clock_on, queue_size, remote_peer_event, link_event, exit_event,
                 source_queue, destination_queue, remote_peer_addr_array,
                 remote_peer_port_array, proc, reset_queue, sup, restarts,
                 child_proc_started_event, counters, inbox, sent, forged, idle>>

\* child_proc_started_event.wait()
wookiee_server_worker_begin ==
  /\ aw.pc = "wait_started"
  /\ child_proc_started_event
  /\ aw' = AwLoopTop(aw)
  /\ UNCHANGED <<wiring, peers, running, clock_on, queue_size, remote_peer_event, link_event, exit_event,
                 source_queue, destination_queue, remote_peer_addr_array,
                 remote_peer_port_array, proc, reset_queue, sup, restarts,
                 child_proc_started_event, counters, inbox, sent, forged, idle>>

\* one datagram read from the public port
wookiee_server_worker_recv ==
  /\ aw.pc = "recv"
  /\ inbox[ServerSocket] # <<>>
  /\ LET dg == Head(inbox[ServerSocket])
         st == Admission(dg.src)
         q == st.index
         a1 == [aw EXCEPT !.dict = st.dict, !.vacancy = st.vacancy,
                          !.addr_list = IF aw.rebound THEN st.addr ELSE @,
                          !.port_list = IF aw.rebound THEN st.port ELSE @,
                          !.timeout = IF DOMAIN aw.dict # {} THEN FALSE ELSE @]
     IN /\ inbox' = [inbox EXCEPT ![ServerSocket] = Tail(@)]
        /\ remote_peer_event' = [remote_peer_event EXCEPT ![Server] = st.rpe]
        /\ remote_peer_addr_array' = IF aw.rebound THEN remote_peer_addr_array ELSE st.addr
        /\ remote_peer_port_array' = IF aw.rebound THEN remote_peer_port_array ELSE st.port
        /\ IF q = 0
             THEN /\ aw' = AwLoopTop(a1)
                  /\ UNCHANGED <<source_queue, counters>>
             ELSE IF Full(source_queue[Server][q])
               THEN /\ aw' = [a1 EXCEPT !.pc = "put", !.held = dg.data, !.index = q]
                    /\ UNCHANGED <<source_queue, counters>>
               ELSE /\ source_queue' = [source_queue EXCEPT ![Server][q] = Append(@, dg.data)]
                    /\ counters' = [counters EXCEPT ![Server] = CountInbound(@, dg.data)]
                    /\ aw' = AwLoopTop(a1)
  /\ idle' = [idle EXCEPT !.sock = 0]
  /\ UNCHANGED <<wiring, peers, running, clock_on, queue_size, link_event, exit_event, destination_queue,
                 proc, reset_queue, sup, restarts, child_proc_started_event, sent, forged>>

\* source_queue_list[queue_index].put(idata) returning once the queue has room
wookiee_server_worker_put ==
  /\ aw.pc = "put"
  /\ ~Full(source_queue[Server][aw.index])
  /\ source_queue' = [source_queue EXCEPT ![Server][aw.index] = Append(@, aw.held)]
  /\ counters' = [counters EXCEPT ![Server] = CountInbound(@, aw.held)]
  /\ aw' = AwLoopTop(aw)
  /\ UNCHANGED <<wiring, peers, running, clock_on, queue_size, remote_peer_event, link_event, exit_event,
                 destination_queue, remote_peer_addr_array, remote_peer_port_array,
                 proc, reset_queue, sup, restarts, child_proc_started_event, inbox,
                 sent, forged, idle>>

\* the purge of the except socket.timeout branch
Purge(a) ==
  IF DOMAIN a.dict # {}
    THEN [a EXCEPT !.dict = EmptyDict, !.rebound = TRUE,
                   !.addr_list = [k \in Slots |-> 0], !.port_list = [k \in Slots |-> 0],
                   !.vacancy = [k \in Slots |-> TRUE]]
    ELSE a

\* a variant of the test below: the wait times out at once
AwTimedOutAtOnce == TRUE

\* whether the wait on the public port has lasted SERVER_PEER_CONNECTION_TIMEOUT
AwTimedOut == clock_on => idle.sock >= SERVER_PEER_CONNECTION_TIMEOUT

\* socket.timeout on the public port
wookiee_server_worker_timeout ==
  /\ aw.pc = "recv"
  /\ aw.timeout
  /\ inbox[ServerSocket] = <<>>
  /\ AwTimedOut
  /\ aw' = AwLoopTop(Purge(aw))
  /\ idle' = [idle EXCEPT !.sock = 0]
  /\ UNCHANGED <<wiring, peers, running, clock_on, queue_size, remote_peer_event, link_event, exit_event,
                 source_queue, destination_queue, remote_peer_addr_array,
                 remote_peer_port_array, proc, reset_queue, sup, restarts,
                 child_proc_started_event, counters, inbox, sent, forged>>

(* ------------------------------------------------------ receive workers *)
\* the top of  while not exit_event.is_set():  and the timeout the worker
\* arms, if the remote-peer flag is set, before it blocks in recvfrom
ReceiveLoopTop(w, exit, rpe) ==
  IF exit THEN [w EXCEPT !.pc = "done", !.held = "", !.armed = FALSE]
  ELSE [w EXCEPT !.pc = "recv", !.held = "", !.armed = rpe]

\* the queue a receive worker puts on
PutsUpstream(mode) == IsSourceReceive(mode)

\* a variant of the entry below: the destination-receive workers do not
\* wait for the link flag
ReceiveEntryUnlinked(mode) == IF IsSourceReceive(mode) THEN "ka_send" ELSE "recv"

\* where a receive worker first blocks: client-source-receive in its
\* keep-alive loop, the destination-receive workers in link_event.wait()
\* (nothing is read on the way there but the flags the handler has just
\* cleared)
ReceiveEntry(mode) == IF IsSourceReceive(mode) THEN "ka_send" ELSE "wait_link"

\* client keep-alive: the loop test, then the ping, or the end of the loop
\* and link_event.set()
receive_ka_send(k) ==
  LET w == proc["000"][k]
  IN /\ w.pc = "ka_send"
     /\ IF ~remote_peer_event[Client][k] /\ ~exit_event[Client][k]
          THEN /\ HasRoom(inbox, ConfiguredAddr("000", k))
               /\ inbox' = sendto(inbox, SocketOf("000", k), KEEP_ALIVE_PACKET,
                                  ConfiguredAddr("000", k))
               /\ proc' = [proc EXCEPT !["000"][k].pc = "ka_recv"]
               /\ UNCHANGED link_event
          ELSE /\ link_event' = [link_event EXCEPT ![Client][k] = TRUE]
               /\ proc' = [proc EXCEPT !["000"][k] =
                             ReceiveLoopTop(w, exit_event[Client][k],
                                            remote_peer_event[Client][k])]
               /\ UNCHANGED inbox
     /\ UNCHANGED <<wiring, peers, running, clock_on, queue_size, remote_peer_event, exit_event,
                    source_queue, destination_queue, remote_peer_addr_array,
                    remote_peer_port_array, reset_queue, sup, restarts, aw,
                    child_proc_started_event, counters, sent, forged, idle>>

\* a variant of the test below: a KEEP_ALIVE_HALT from any address sets the
\* flag
ClientKaSetsFlagFromAny(dg, k) == dg.data = KEEP_ALIVE_HALT_PACKET

\* a variant of the test below: any reserved payload from the server sets
\* the flag
ClientKaSetsFlagOnAny(dg, k) ==
  dg.src = ConfiguredAddr("000", k)
    /\ dg.data \in {KEEP_ALIVE_PACKET, KEEP_ALIVE_HALT_PACKET}

\* what the client keep-alive loop does with a datagram: the remote-peer flag
ClientKaSetsFlag(dg, k) ==
  dg.src = ConfiguredAddr("000", k) /\ dg.data = KEEP_ALIVE_HALT_PACKET

\* client keep-alive: the reply, or KEEP_ALIVE_PING_TIMEOUT
receive_ka_recv(k) ==
  LET w == proc["000"][k]
      sock == SocketOf("000", k)
  IN /\ w.pc = "ka_recv"
     /\ \/ /\ inbox[sock] # <<>>
           /\ LET dg == Head(inbox[sock])
              IN /\ inbox' = [inbox EXCEPT ![sock] = Tail(@)]
                 /\ remote_peer_event' =
                      [remote_peer_event EXCEPT ![Client][k] = @ \/ ClientKaSetsFlag(dg, k)]
                 /\ proc' = [proc EXCEPT !["000"][k].pc = "ka_send",
                                         !["000"][k].held = dg.data,
                                         !["000"][k].addr = dg.src,
                                         !["000"][k].pcr =
                                            @ \/ (dg.src = ConfiguredAddr("000", k)
                                                  /\ dg.data = KEEP_ALIVE_PACKET)]
        \/ /\ inbox[sock] = <<>>
           /\ proc' = [proc EXCEPT !["000"][k].pc = "ka_send"]
           /\ UNCHANGED <<inbox, remote_peer_event>>
     /\ UNCHANGED <<wiring, peers, running, clock_on, queue_size, link_event, exit_event,
                    source_queue, destination_queue, remote_peer_addr_array,
                    remote_peer_port_array, reset_queue, sup, restarts, aw,
                    child_proc_started_event, counters, sent, forged, idle>>

\* link_event.wait() of the destination-receive workers
receive_linked(mode, k) ==
  LET role == RoleOf(mode)
      w == proc[mode][k]
  IN /\ IsDestinationReceive(mode)
     /\ w.pc = "wait_link"
     /\ link_event[role][k]
     /\ proc' = [proc EXCEPT ![mode][k] =
                   ReceiveLoopTop(w, exit_event[role][k], remote_peer_event[role][k])]
     /\ UNCHANGED <<wiring, peers, running, clock_on, queue_size, remote_peer_event, link_event, exit_event,
                    source_queue, destination_queue, remote_peer_addr_array,
                    remote_peer_port_array, reset_queue, sup, restarts, aw,
                    child_proc_started_event, counters, inbox, sent, forged, idle>>

\* the payloads the main loop of a receive worker does not enqueue
Filtered(data) == data = KEEP_ALIVE_PACKET

\* remote_peer_handlers_reset_queue.put(peer), when the reset queue (of
\* capacity peers) has room; else the worker blocks in put. exit_event.set()
\* is the worker's next statement
RequestsReset(mode, k, w) ==
  LET role == RoleOf(mode)
  IN /\ IF Len(reset_queue[role]) >= peers
          THEN /\ proc' = [proc EXCEPT ![mode][k] = [w EXCEPT !.pc = "put_reset"]]
               /\ UNCHANGED reset_queue
          ELSE /\ reset_queue' = [reset_queue EXCEPT ![role] = Append(@, k)]
               /\ proc' = [proc EXCEPT ![mode][k] =
                             [w EXCEPT !.pc = "set_exit", !.held = "", !.armed = FALSE]]
     /\ UNCHANGED exit_event

\* an enqueue that would put the payload in front of the waiting ones
EnqueuesAtHead(mode, k, data) ==
  LET role == RoleOf(mode)
  IN IF PutsUpstream(mode)
       THEN /\ source_queue' = [source_queue EXCEPT ![role][k] = <<data>> \o @]
            /\ counters' = [counters EXCEPT ![role] = CountInbound(@, data)]
            /\ UNCHANGED destination_queue
       ELSE /\ destination_queue' = [destination_queue EXCEPT ![role][k] = <<data>> \o @]
            /\ UNCHANGED <<source_queue, counters>>

\* whether other processes write the counters a slot's worker updates: the
\* workers of the other slots do; with one slot the worker is their only
\* writer and its accounting is folded into the step that precedes it
Racing == peers > 1

\* the counter a worker increments
CounterOf(mode) ==
  IF IsDestinationRelay(mode) THEN "destination_packet_count" ELSE "source_packet_count"

\* the enqueue of an accepted payload and, unless it takes steps of its own,
\* its accounting
Enqueues(mode, k, data) ==
  LET role == RoleOf(mode)
  IN IF PutsUpstream(mode)
       THEN /\ source_queue' = [source_queue EXCEPT ![role][k] = Append(@, data)]
            /\ counters' = IF Racing THEN counters
                           ELSE [counters EXCEPT ![role] = CountInbound(@, data)]
            /\ UNCHANGED destination_queue
       ELSE /\ destination_queue' = [destination_queue EXCEPT ![role][k] = Append(@, data)]
            /\ UNCHANGED <<source_queue, counters>>

QueueOf(mode, k) ==
  IF PutsUpstream(mode) THEN source_queue[RoleOf(mode)][k]
  ELSE destination_queue[RoleOf(mode)][k]

\* where a receive worker goes once it has enqueued a payload: to its
\* accounting, or to the loop test
AfterEnqueue(mode, k, w, data) ==
  IF PutsUpstream(mode) /\ Racing
    THEN [w EXCEPT !.pc = "load_count", !.held = data]
    ELSE ReceiveLoopTop(w, exit_event[RoleOf(mode)][k], remote_peer_event[RoleOf(mode)][k])

\* one datagram read in the main loop of wookiee_receive_worker
receive_recv(mode, k) ==
  LET role == RoleOf(mode)
      w == proc[mode][k]
      sock == SocketOf(mode, k)
  IN /\ w.pc = "recv"
     /\ inbox[sock] # <<>>
     /\ inbox' = [inbox EXCEPT ![sock] = Tail(@)]
     /\ LET dg == Head(inbox[sock])
        IN IF ~Filtered(dg.data)
             THEN /\ IF Full(QueueOf(mode, k))
                       THEN /\ proc' = [proc EXCEPT ![mode][k] =
                                          [w EXCEPT !.pc = "put", !.held = dg.data]]
                            /\ UNCHANGED <<source_queue, destination_queue, counters>>
                       ELSE /\ Enqueues(mode, k, dg.data)
                            /\ proc' = [proc EXCEPT ![mode][k] =
                                          AfterEnqueue(mode, k, w, dg.data)]
                  /\ UNCHANGED <<reset_queue, exit_event>>
             ELSE /\ RequestsReset(mode, k, w)
                  /\ UNCHANGED <<source_queue, destination_queue, counters>>
     /\ UNCHANGED <<wiring, peers, running, clock_on, queue_size, remote_peer_event, link_event,
                    remote_peer_addr_array, remote_peer_port_array, sup, restarts, aw,
                    child_proc_started_event, sent, forged, idle>>

\* queue.put returning once the queue has room
receive_put(mode, k) ==
  LET role == RoleOf(mode)
      w == proc[mode][k]
  IN /\ w.pc = "put"
     /\ ~Full(QueueOf(mode, k))
     /\ Enqueues(mode, k, w.held)
     /\ proc' = [proc EXCEPT ![mode][k] = AfterEnqueue(mode, k, w, w.held)]
     /\ UNCHANGED <<wiring, peers, running, clock_on, queue_size, remote_peer_event, link_event, exit_event,
                    remote_peer_addr_array, remote_peer_port_array, reset_queue, sup,
                    restarts, aw, child_proc_started_event, inbox, sent, forged, idle>>

\* remote_peer_handlers_reset_queue.put returning once the queue has room
receive_put_reset(mode, k) ==
  LET role == RoleOf(mode)
      w == proc[mode][k]
  IN /\ w.pc = "put_reset"
     /\ Len(reset_queue[role]) < peers
     /\ RequestsReset(mode, k, w)
     /\ UNCHANGED <<wiring, peers, running, clock_on, queue_size, remote_peer_event, link_event,
                    source_queue, destination_queue, remote_peer_addr_array,
                    remote_peer_port_array, sup, restarts, aw,
                    child_proc_started_event, counters, inbox, sent, forged, idle>>

\* a variant of the step below: the worker that asks for a reset also clears
\* the link flag of its slot
receive_set_exit_unlinks(mode, k) ==
  LET role == RoleOf(mode)
      w == proc[mode][k]
  IN /\ w.pc = "set_exit"
     /\ exit_event' = [exit_event EXCEPT ![role][k] = TRUE]
     /\ link_event' = [link_event EXCEPT ![role][k] = FALSE]
     /\ proc' = [proc EXCEPT ![mode][k] = ReceiveLoopTop(w, TRUE, FALSE)]
     /\ UNCHANGED <<wiring, peers, running, clock_on, queue_size, remote_peer_event,
                    source_queue, destination_queue, remote_peer_addr_array,
                    remote_peer_port_array, reset_queue, sup, restarts, aw,
                    child_proc_started_event, counters, inbox, sent, forged, idle>>

\* exit_event.set() after the put on the reset queue, then the loop test
receive_set_exit(mode, k) ==
  LET role == RoleOf(mode)
      w == proc[mode][k]
  IN /\ w.pc = "set_exit"
     /\ exit_event' = [exit_event EXCEPT ![role][k] = TRUE]
     /\ proc' = [proc EXCEPT ![mode][k] = ReceiveLoopTop(w, TRUE, FALSE)]
     /\ UNCHANGED <<wiring, peers, running, clock_on, queue_size, remote_peer_event, link_event,
                    source_queue, destination_queue, remote_peer_addr_array,
                    remote_peer_port_array, reset_queue, sup, restarts, aw,
                    child_proc_started_event, counters, inbox, sent, forged, idle>>

\* a variant of the test below: a timeout of any receive worker asks for a
\* reset
TimeoutResetsAny(mode, k) == ~exit_event[RoleOf(mode)][k]

\* whether a socket.timeout in the main loop asks for a reset
TimeoutResets(mode, k) == IsDestinationReceive(mode) /\ ~exit_event[RoleOf(mode)][k]

\* socket.timeout in the main loop: only an armed read times out
receive_timeout(mode, k) ==
  LET role == RoleOf(mode)
      w == proc[mode][k]
  IN /\ w.pc = "recv"
     /\ w.armed
     /\ inbox[SocketOf(mode, k)] = <<>>
     /\ IF TimeoutResets(mode, k)
          THEN RequestsReset(mode, k, w)
          ELSE /\ proc' = [proc EXCEPT ![mode][k] =
                             ReceiveLoopTop(w, exit_event[role][k],
                                            remote_peer_event[role][k])]
               /\ UNCHANGED <<reset_queue, exit_event>>
     /\ UNCHANGED <<wiring, peers, running, clock_on, queue_size, remote_peer_event, link_event,
                    source_queue, destination_queue, remote_peer_addr_array,
                    remote_peer_port_array, sup, restarts, aw,
                    child_proc_started_event, counters, inbox, sent, forged, idle>>

(* -------------------------------------------------------- relay workers *)
\* the queue a relay worker gets from
GetsUpstream(mode) == IsSourceRelay(mode)

\* server-destination-relay: the read of the shared peer-slot entry; the
\* entry is re-read (after a sleep) while it equals (0, 0)
CacheRemotePeer(w, k) ==
  IF w.cached THEN [w EXCEPT !.pc = "get"]
  ELSE LET oaddr == <<inet_ntoa(remote_peer_addr_array[k]), remote_peer_port_array[k]>>
       IN IF EqualsZeroPair(oaddr) THEN [w EXCEPT !.pc = "wait_link", !.addr = oaddr]
          ELSE [w EXCEPT !.pc = "get", !.addr = oaddr, !.cached = TRUE]

\* whether server-destination-relay waits for the link flag in its loop
WaitsForLink(mode) == mode = "111"

\* the top of  while not exit_event.is_set():  of wookiee_relay_worker
RelayLoopTop(w, mode, k, exit, link) ==
  IF exit THEN [w EXCEPT !.pc = "done"]
  ELSE IF WaitsForLink(mode)
         THEN IF link THEN CacheRemotePeer(w, k) ELSE [w EXCEPT !.pc = "wait_link"]
         ELSE [w EXCEPT !.pc = "get"]

\* server keep-alive: whether the loop is entered; if it is not, kaaddr is
\* unbound at  oaddr = kaaddr  and the worker dies of UnboundLocalError
EntersKeepAlive(k) == ~remote_peer_event[Server][k] /\ ~exit_event[Server][k]

\* the start of wookiee_relay_worker
relay_start(mode, k) ==
  LET role == RoleOf(mode)
      w == proc[mode][k]
  IN /\ w.pc = "start"
     /\ IF mode = "101"
          THEN proc' = [proc EXCEPT ![mode][k].pc =
                          IF EntersKeepAlive(k) THEN "ka_recv" ELSE "crashed"]
          ELSE proc' = [proc EXCEPT ![mode][k] =
                          RelayLoopTop(w, mode, k, exit_event[role][k], link_event[role][k])]
     /\ UNCHANGED <<wiring, peers, running, clock_on, queue_size, remote_peer_event, link_event, exit_event,
                    source_queue, destination_queue, remote_peer_addr_array,
                    remote_peer_port_array, reset_queue, sup, restarts, aw,
                    child_proc_started_event, counters, inbox, sent, forged, idle>>

\* server keep-alive: the reply the loop sends to the datagram's sender
KeepAliveReply(k) ==
  IF ~remote_peer_event[Server][k] THEN KEEP_ALIVE_PACKET ELSE KEEP_ALIVE_HALT_PACKET

\* server keep-alive: the recvfrom on the relay socket returns a datagram and
\* the worker answers its sender
relay_ka_recv(k) ==
  LET w == proc["101"][k]
      sock == SocketOf("101", k)
      dg == Head(inbox[sock])
      taken == [inbox EXCEPT ![sock] = Tail(@)]
  IN /\ w.pc = "ka_recv"
     /\ inbox[sock] # <<>>
     /\ HasRoom(taken, dg.src)
     /\ inbox' = sendto(taken, sock, KeepAliveReply(k), dg.src)
     /\ proc' = [proc EXCEPT !["101"][k] =
                   [w EXCEPT !.pc = "ka_while", !.addr = dg.src, !.held = dg.data,
                             !.pcr = @ \/ dg.data = KEEP_ALIVE_PACKET]]
     /\ UNCHANGED <<wiring, peers, running, clock_on, queue_size, remote_peer_event, link_event, exit_event,
                    source_queue, destination_queue, remote_peer_addr_array,
                    remote_peer_port_array, reset_queue, sup, restarts, aw,
                    child_proc_started_event, counters, sent, forged, idle>>

\* server keep-alive: the test that ends the loop
KeepAliveEnds(k) == remote_peer_event[Server][k] \/ exit_event[Server][k]

\* server keep-alive: the loop test; at its end  oaddr = kaaddr  and
\* link_event.set()
relay_ka_while(k) ==
  LET w == proc["101"][k]
  IN /\ w.pc = "ka_while"
     /\ IF KeepAliveEnds(k)
          THEN /\ link_event' = [link_event EXCEPT ![Server][k] = TRUE]
               /\ proc' = [proc EXCEPT !["101"][k] =
                             RelayLoopTop(w, "101", k, exit_event[Server][k], TRUE)]
          ELSE /\ proc' = [proc EXCEPT !["101"][k].pc = "ka_recv"]
               /\ UNCHANGED link_event
     /\ UNCHANGED <<wiring, peers, running, clock_on, queue_size, remote_peer_event, exit_event,
                    source_queue, destination_queue, remote_peer_addr_array,
                    remote_peer_port_array, reset_queue, sup, restarts, aw,
                    child_proc_started_event, counters, inbox, sent, forged, idle>>

\* link_event.wait() of server-destination-relay, then the cache
relay_linked(k) ==
  LET w == proc["111"][k]
  IN /\ w.pc = "wait_link"
     /\ link_event[Server][k]
     /\ proc' = [proc EXCEPT !["111"][k] = CacheRemotePeer(w, k)]
     /\ UNCHANGED <<wiring, peers, running, clock_on, queue_size, remote_peer_event, link_event, exit_event,
                    source_queue, destination_queue, remote_peer_addr_array,
                    remote_peer_port_array, reset_queue, sup, restarts, aw,
                    child_proc_started_event, counters, inbox, sent, forged, idle>>

\* a variant of the address below: server-source-relay sends to the tunnel
\* socket of the client, whoever sent the last keep-alive
TargetOfClient(mode, k) ==
  IF mode \in {"001", "011"} THEN ConfiguredAddr(mode, k)
  ELSE IF mode = "101" THEN ClientSource(k) ELSE proc[mode][k].addr

\* the address a relay worker sends to
TargetOf(mode, k) ==
  IF mode \in {"001", "011"} THEN ConfiguredAddr(mode, k) ELSE proc[mode][k].addr

\* sendto raises OSError (EINVAL) for port 0 on 0.0.0.0; nothing catches it
SendRaises(oaddr) == oaddr = NoAddr

\* queue.get returning a payload, and its transmission
relay_get(mode, k) ==
  LET role == RoleOf(mode)
      w == proc[mode][k]
      q == IF GetsUpstream(mode) THEN source_queue[role][k] ELSE destination_queue[role][k]
      oaddr == TargetOf(mode, k)
  IN /\ w.pc = "get"
     /\ q # <<>>
     /\ IF GetsUpstream(mode)
          THEN /\ source_queue' = [source_queue EXCEPT ![role][k] = Tail(@)]
               /\ UNCHANGED destination_queue
          ELSE /\ destination_queue' = [destination_queue EXCEPT ![role][k] = Tail(@)]
               /\ UNCHANGED source_queue
     /\ IF SendRaises(oaddr)
          THEN /\ proc' = [proc EXCEPT ![mode][k].pc = "crashed"]
               /\ UNCHANGED <<inbox, counters>>
          ELSE /\ HasRoom(inbox, oaddr)
               /\ inbox' = sendto(inbox, SocketOf(mode, k), Head(q), oaddr)
               /\ counters' = IF IsDestinationRelay(mode) /\ ~Racing
                                THEN [counters EXCEPT ![role].destination_packet_count = @ + 1]
                                ELSE counters
               /\ proc' = [proc EXCEPT ![mode][k] =
                             IF IsDestinationRelay(mode) /\ Racing
                               THEN [w EXCEPT !.pc = "load_count"]
                               ELSE RelayLoopTop(w, mode, k, exit_event[role][k],
                                                 link_event[role][k])]
     /\ UNCHANGED <<wiring, peers, running, clock_on, queue_size, remote_peer_event, link_event, exit_event,
                    remote_peer_addr_array, remote_peer_port_array, reset_queue, sup,
                    restarts, aw, child_proc_started_event, sent, forged, idle>>

\* <counter>.value += 1, first half: the read of the shared value
count_load(mode, k) ==
  LET role == RoleOf(mode)
      w == proc[mode][k]
  IN /\ w.pc = "load_count"
     /\ proc' = [proc EXCEPT ![mode][k] =
                   [w EXCEPT !.pc = "store_count", !.seen = counters[role][CounterOf(mode)]]]
     /\ UNCHANGED <<wiring, peers, running, clock_on, queue_size, remote_peer_event, link_event, exit_event,
                    source_queue, destination_queue, remote_peer_addr_array,
                    remote_peer_port_array, reset_queue, sup, restarts, aw,
                    child_proc_started_event, counters, inbox, sent, forged, idle>>

\* the value the second half of  += 1  writes
Incremented(mode, k) == proc[mode][k].seen + 1

\* <counter>.value += 1, second half: the write; a relay worker is then at
\* its loop test, client-source-receive at the test of max_packet_size
count_store(mode, k) ==
  LET role == RoleOf(mode)
      w == [proc[mode][k] EXCEPT !.seen = 0]
  IN /\ proc[mode][k].pc = "store_count"
     /\ counters' = [counters EXCEPT ![role][CounterOf(mode)] = Incremented(mode, k)]
     /\ proc' = [proc EXCEPT ![mode][k] =
                   IF IsDestinationRelay(mode)
                     THEN RelayLoopTop(w, mode, k, exit_event[role][k], link_event[role][k])
                     ELSE [w EXCEPT !.pc = "load_max"]]
     /\ UNCHANGED <<wiring, peers, running, clock_on, queue_size, remote_peer_event, link_event, exit_event,
                    source_queue, destination_queue, remote_peer_addr_array,
                    remote_peer_port_array, reset_queue, sup, restarts, aw,
                    child_proc_started_event, inbox, sent, forged, idle>>

\* if packet_size > max_packet_size.value
ExceedsMax(k) == PacketSize(proc["000"][k].held) > counters[Client].max_packet_size

\* the test of max_packet_size by client-source-receive
max_load(k) ==
  LET w == proc["000"][k]
  IN /\ w.pc = "load_max"
     /\ proc' = [proc EXCEPT !["000"][k] =
                   IF ExceedsMax(k) THEN [w EXCEPT !.pc = "store_max"]
                   ELSE ReceiveLoopTop(w, exit_event[Client][k], remote_peer_event[Client][k])]
     /\ UNCHANGED <<wiring, peers, running, clock_on, queue_size, remote_peer_event, link_event, exit_event,
                    source_queue, destination_queue, remote_peer_addr_array,
                    remote_peer_port_array, reset_queue, sup, restarts, aw,
                    child_proc_started_event, counters, inbox, sent, forged, idle>>

\* max_packet_size.value = packet_size
max_store(k) ==
  LET w == proc["000"][k]
  IN /\ w.pc = "store_max"
     /\ counters' = [counters EXCEPT ![Client].max_packet_size = PacketSize(w.held)]
     /\ proc' = [proc EXCEPT !["000"][k] =
                   ReceiveLoopTop(w, exit_event[Client][k], remote_peer_event[Client][k])]
     /\ UNCHANGED <<wiring, peers, running, clock_on, queue_size, remote_peer_event, link_event, exit_event,
                    source_queue, destination_queue, remote_peer_addr_array,
                    remote_peer_port_array, reset_queue, sup, restarts, aw,
                    child_proc_started_event, inbox, sent, forged, idle>>

\* queue.Empty after DEFAULT_TIMEOUT: the worker sees the exit flag
relay_get_timeout(mode, k) ==
  LET role == RoleOf(mode)
      w == proc[mode][k]
      q == IF GetsUpstream(mode) THEN source_queue[role][k] ELSE destination_queue[role][k]
  IN /\ w.pc = "get"
     /\ q = <<>>
     /\ exit_event[role][k]
     /\ proc' = [proc EXCEPT ![mode][k].pc = "done"]
     /\ UNCHANGED <<wiring, peers, running, clock_on, queue_size, remote_peer_event, link_event, exit_event,
                    source_queue, destination_queue, remote_peer_addr_array,
                    remote_peer_port_array, reset_queue, sup, restarts, aw,
                    child_proc_started_event, counters, inbox, sent, forged, idle>>

(* ------------------------------------------------------ main supervisor *)
\* a handler start that would clear the flags of every slot
wookiee_peer_handler_start_all(role, k) ==
  /\ exit_event' = [exit_event EXCEPT ![role] = [j \in Slots |-> FALSE]]
  /\ link_event' = [link_event EXCEPT ![role] = [j \in Slots |-> FALSE]]
  /\ remote_peer_event' = [remote_peer_event EXCEPT ![role] = [j \in Slots |-> FALSE]]
  /\ proc' = [m \in Modes |->
                IF m \notin ModesOf(role) THEN proc[m]
                ELSE IF m \in ReceiveModes
                  THEN [proc[m] EXCEPT ![k] = [NewProc EXCEPT !.pc = ReceiveEntry(m)]]
                  ELSE [proc[m] EXCEPT ![k] = NewProc]]

\* RemotePeerHandler.wookiee_peer_handler_start: the three flags cleared,
\* the workers of the slot spawned
wookiee_peer_handler_start(role, k) ==
  /\ exit_event' = [exit_event EXCEPT ![role][k] = FALSE]
  /\ link_event' = [link_event EXCEPT ![role][k] = FALSE]
  /\ remote_peer_event' = [remote_peer_event EXCEPT ![role][k] = FALSE]
  /\ proc' = [m \in Modes |->
                IF m \notin ModesOf(role) THEN proc[m]
                ELSE IF m \in ReceiveModes
                  THEN [proc[m] EXCEPT ![k] = [NewProc EXCEPT !.pc = ReceiveEntry(m)]]
                  ELSE [proc[m] EXCEPT ![k] = NewProc]]

\* the loop of __main__ that creates and starts the handlers, then (server)
\* child_proc_started_event.set()
main_boot(role) ==
  LET k == sup[role].peer
  IN /\ role \in running
     /\ sup[role].pc = "boot"
     /\ wookiee_peer_handler_start(role, k)
     /\ IF k = peers
          THEN /\ sup' = [sup EXCEPT ![role] = [pc |-> "get", peer |-> 0]]
               /\ child_proc_started_event' = (child_proc_started_event \/ role = Server)
          ELSE /\ sup' = [sup EXCEPT ![role].peer = k + 1]
               /\ UNCHANGED child_proc_started_event
     /\ UNCHANGED <<wiring, peers, running, clock_on, queue_size, source_queue, destination_queue,
                    remote_peer_addr_array, remote_peer_port_array, reset_queue,
                    restarts, aw, counters, inbox, sent, forged, idle>>

\* reset_peer = remote_peer_handlers_reset_queue.get()
main_get(role) ==
  /\ role \in running
  /\ sup[role].pc = "get"
  /\ reset_queue[role] # <<>>
  /\ sup' = [sup EXCEPT ![role] = [pc |-> "join", peer |-> Head(reset_queue[role])]]
  /\ reset_queue' = [reset_queue EXCEPT ![role] = Tail(@)]
  /\ UNCHANGED <<wiring, peers, running, clock_on, queue_size, remote_peer_event, link_event, exit_event,
                 source_queue, destination_queue, remote_peer_addr_array,
                 remote_peer_port_array, proc, restarts, aw,
                 child_proc_started_event, counters, inbox, sent, forged, idle>>

\* a variant of the test below: the supervisor does not wait for the joins
JoinedAtOnce(role, k) == TRUE

\* whether the joins of the slot's processes have all returned
Joined(role, k) == \A m \in ModesOf(role) : ~is_alive(proc[m][k])

\* the joins, then the restart of the handler
main_join(role, max) ==
  LET k == sup[role].peer
  IN /\ role \in running
     /\ sup[role].pc = "join"
     /\ Joined(role, k)
     /\ Total(restarts) < max
     /\ wookiee_peer_handler_start(role, k)
     /\ restarts' = [restarts EXCEPT ![role] = @ + 1]
     /\ sup' = [sup EXCEPT ![role] = [pc |-> "get", peer |-> 0]]
     /\ UNCHANGED <<wiring, peers, running, clock_on, queue_size, source_queue, destination_queue,
                    remote_peer_addr_array, remote_peer_port_array, reset_queue, aw,
                    child_proc_started_event, counters, inbox, sent, forged, idle>>

\* a termination signal reaches the main process in its reset loop:
\* SystemExit, and the handler sets the admission worker's exit event and the
\* exit flag of every slot
main_signal(role) ==
  /\ role \in running
  /\ sup[role].pc \in {"get", "join"}
  /\ aw' = IF role = Server THEN [aw EXCEPT !.exit = TRUE] ELSE aw
  /\ exit_event' = [exit_event EXCEPT ![role] = [k \in Slots |-> TRUE]]
  /\ sup' = [sup EXCEPT ![role] =
               [pc |-> IF role = Server THEN "stop_server" ELSE "stop_peers", peer |-> 1]]
  /\ UNCHANGED <<wiring, peers, running, clock_on, queue_size, remote_peer_event, link_event,
                 source_queue, destination_queue, remote_peer_addr_array,
                 remote_peer_port_array, proc, reset_queue, restarts,
                 child_proc_started_event, counters, inbox, sent, forged, idle>>

\* finally: server_handler_process.join() returns
main_stop_server ==
  /\ sup[Server].pc = "stop_server"
  /\ aw.pc \in {"none", "done"}
  /\ sup' = [sup EXCEPT ![Server].pc = "stop_peers"]
  /\ UNCHANGED <<wiring, peers, running, clock_on, queue_size, remote_peer_event, link_event, exit_event,
                 source_queue, destination_queue, remote_peer_addr_array,
                 remote_peer_port_array, proc, reset_queue, restarts, aw,
                 child_proc_started_event, counters, inbox, sent, forged, idle>>

\* finally: the joins of the processes of one slot return; after the last
\* slot the statistics are logged and the process ends
main_stop_peers(role) ==
  LET k == sup[role].peer
  IN /\ sup[role].pc = "stop_peers"
     /\ Joined(role, k)
     /\ sup' = [sup EXCEPT ![role] = IF k = peers THEN [pc |-> "stopped", peer |-> 0]
                                     ELSE [pc |-> "stop_peers", peer |-> k + 1]]
     /\ UNCHANGED <<wiring, peers, running, clock_on, queue_size, remote_peer_event, link_event, exit_event,
                    source_queue, destination_queue, remote_peer_addr_array,
                    remote_peer_port_array, proc, reset_queue, restarts, aw,
                    child_proc_started_event, counters, inbox, sent, forged, idle>>

(* ---------------------------------------------------------- environment *)
\* the sockets are bound and every handler has been started
Booted == \A r \in running : sup[r].pc # "boot"

\* a remote peer sends its next application payload to the public port
\* remote peers are named in the order of their first datagram
MaySend(p) ==
  /\ p \in DOMAIN sent.peer
  /\ \A o \in DOMAIN sent.peer : PeerAddr(o)[2] < PeerAddr(p)[2] => sent.peer[o] > 0

PeerSend(p, each, total) ==
  /\ Booted
  /\ MaySend(p)
  /\ sent.peer[p] < each
  /\ Total(sent.peer) < total
  /\ HasRoom(inbox, ServerSocket)
  /\ inbox' = sendto(inbox, PeerAddr(p), PeerBodies(p)[sent.peer[p] + 1], ServerSocket)
  /\ sent' = [sent EXCEPT !.peer[p] = @ + 1]
  /\ idle' = [idle EXCEPT !.peer[p] = 0]
  /\ UNCHANGED <<wiring, peers, running, clock_on, queue_size, remote_peer_event, link_event, exit_event,
                 source_queue, destination_queue, remote_peer_addr_array,
                 remote_peer_port_array, proc, reset_queue, sup, restarts, aw,
                 child_proc_started_event, counters, forged>>

\* a remote peer sends a payload while the handlers are still being started:
\* the public socket is bound by the ServerHandler constructor
PeerSendEarly(p, each, total) ==
  /\ ~Booted
  /\ MaySend(p)
  /\ sent.peer[p] < each
  /\ Total(sent.peer) < total
  /\ HasRoom(inbox, ServerSocket)
  /\ inbox' = sendto(inbox, PeerAddr(p), PeerBodies(p)[sent.peer[p] + 1], ServerSocket)
  /\ sent' = [sent EXCEPT !.peer[p] = @ + 1]
  /\ idle' = [idle EXCEPT !.peer[p] = 0]
  /\ UNCHANGED <<wiring, peers, running, clock_on, queue_size, remote_peer_event, link_event, exit_event,
                 source_queue, destination_queue, remote_peer_addr_array,
                 remote_peer_port_array, proc, reset_queue, sup, restarts, aw,
                 child_proc_started_event, counters, forged>>

\* a remote peer sends a payload equal to one of the two reserved ones
PeerForge(p, data, max) ==
  /\ Booted
  /\ MaySend(p)
  /\ forged < max
  /\ HasRoom(inbox, ServerSocket)
  /\ inbox' = sendto(inbox, PeerAddr(p), data, ServerSocket)
  /\ forged' = forged + 1
  /\ idle' = [idle EXCEPT !.peer[p] = 0]
  /\ UNCHANGED <<wiring, peers, running, clock_on, queue_size, remote_peer_event, link_event, exit_event,
                 source_queue, destination_queue, remote_peer_addr_array,
                 remote_peer_port_array, proc, reset_queue, sup, restarts, aw,
                 child_proc_started_event, counters, sent>>

\* a stranger sends a datagram to the tunnel socket of client slot k
StrangerSend(k, data, max) ==
  /\ Booted
  /\ Client \in running
  /\ forged < max
  /\ HasRoom(inbox, ClientSource(k))
  /\ inbox' = sendto(inbox, StrangerAddr, data, ClientSource(k))
  /\ forged' = forged + 1
  /\ UNCHANGED <<wiring, peers, running, clock_on, queue_size, remote_peer_event, link_event, exit_event,
                 source_queue, destination_queue, remote_peer_addr_array,
                 remote_peer_port_array, proc, reset_queue, sup, restarts, aw,
                 child_proc_started_event, counters, sent, idle>>

\* a remote peer sends a datagram to the relay port of server slot k
PeerProbe(p, k, data, max) ==
  /\ Booted
  /\ Server \in running
  /\ p \in DOMAIN sent.peer
  /\ forged < max
  /\ HasRoom(inbox, ServerRelay(k))
  /\ inbox' = sendto(inbox, PeerAddr(p), data, ServerRelay(k))
  /\ forged' = forged + 1
  /\ UNCHANGED <<wiring, peers, running, clock_on, queue_size, remote_peer_event, link_event, exit_event,
                 source_queue, destination_queue, remote_peer_addr_array,
                 remote_peer_port_array, proc, reset_queue, sup, restarts, aw,
                 child_proc_started_event, counters, sent, idle>>

\* the server's relay socket of slot k sends a reserved payload to the tunnel
\* socket of client slot k, when the client runs alone
ServerSend(k, data, max) ==
  /\ Booted
  /\ running = {Client}
  /\ forged < max
  /\ HasRoom(inbox, ClientSource(k))
  /\ inbox' = sendto(inbox, ServerRelay(k), data, ClientSource(k))
  /\ forged' = forged + 1
  /\ UNCHANGED <<wiring, peers, running, clock_on, queue_size, remote_peer_event, link_event, exit_event,
                 source_queue, destination_queue, remote_peer_addr_array,
                 remote_peer_port_array, proc, reset_queue, sup, restarts, aw,
                 child_proc_started_event, counters, sent, idle>>

\* what the server sends down the tunnel of slot k when the client runs
\* alone: the end of the handshake, then payloads, longer ones for slot 1
TunnelBodies(k) ==
  IF k = 1 THEN <<KEEP_ALIVE_HALT_PACKET, "A1A2", "A3A4">>
  ELSE <<KEEP_ALIVE_HALT_PACKET, "A1", "A2">>

\* the server's relay socket of slot k sends its next datagram to the tunnel
\* socket of client slot k, when the client runs alone
TunnelDown(k, max) ==
  /\ Booted
  /\ running = {Client}
  /\ sent.tunnel[k] < max
  /\ HasRoom(inbox, ClientSource(k))
  /\ inbox' = sendto(inbox, ServerRelay(k), TunnelBodies(k)[sent.tunnel[k] + 1], ClientSource(k))
  /\ sent' = [sent EXCEPT !.tunnel[k] = @ + 1]
  /\ UNCHANGED <<wiring, peers, running, clock_on, queue_size, remote_peer_event, link_event, exit_event,
                 source_queue, destination_queue, remote_peer_addr_array,
                 remote_peer_port_array, proc, reset_queue, sup, restarts, aw,
                 child_proc_started_event, counters, forged, idle>>

\* the private endpoint answers on the port it has heard slot k from
EndpointSend(k, max) ==
  /\ sent.endpoint[k] < max
  /\ \E i \in DOMAIN inbox[Endpoint] : inbox[Endpoint][i].src = ClientRelay(k)
  /\ HasRoom(inbox, ClientRelay(k))
  /\ inbox' = sendto(inbox, Endpoint, EndpointBodies[sent.endpoint[k] + 1], ClientRelay(k))
  /\ sent' = [sent EXCEPT !.endpoint[k] = @ + 1]
  /\ UNCHANGED <<wiring, peers, running, clock_on, queue_size, remote_peer_event, link_event, exit_event,
                 source_queue, destination_queue, remote_peer_addr_array,
                 remote_peer_port_array, proc, reset_queue, sup, restarts, aw,
                 child_proc_started_event, counters, forged, idle>>

\* the far end of the tunnel of slot k, when the server runs alone: a
\* keep-alive, or a downstream payload
Halted(k) ==
  \E i \in DOMAIN inbox[ClientSource(k)] :
     inbox[ClientSource(k)][i].data = KEEP_ALIVE_HALT_PACKET

TunnelSend(k, keepalive, pings, datas) ==
  /\ Booted
  /\ IF keepalive THEN Total(sent.ping) < pings
       ELSE Halted(k) /\ Total(sent.tunnel) < datas
  /\ HasRoom(inbox, ServerRelay(k))
  /\ inbox' = sendto(inbox, ClientSource(k),
                     IF keepalive THEN KEEP_ALIVE_PACKET
                     ELSE EndpointBodies[sent.tunnel[k] + 1], ServerRelay(k))
  /\ sent' = IF keepalive THEN [sent EXCEPT !.ping[k] = @ + 1]
             ELSE [sent EXCEPT !.tunnel[k] = @ + 1]
  /\ UNCHANGED <<wiring, peers, running, clock_on, queue_size, remote_peer_event, link_event, exit_event,
                 source_queue, destination_queue, remote_peer_addr_array,
                 remote_peer_port_array, proc, reset_queue, sup, restarts, aw,
                 child_proc_started_event, counters, forged, idle>>

\* whether the admission worker is waiting, its timeout armed, for a datagram
AwWaiting == aw.pc = "recv" /\ aw.timeout /\ inbox[ServerSocket] = <<>>
Bump(n) == IF n > SERVER_PEER_CONNECTION_TIMEOUT THEN n ELSE n + 1

\* whether the admission worker has a datagram to read
AwPending == aw.pc = "recv" /\ inbox[ServerSocket] # << >>

\* one unit of time passes; it cannot pass once the wait of the admission
\* worker has lasted SERVER_PEER_CONNECTION_TIMEOUT, nor while a datagram
\* waits for the admission worker (reading it takes no time)
Tick ==
  /\ clock_on
  /\ ~(AwWaiting /\ idle.sock >= SERVER_PEER_CONNECTION_TIMEOUT)
  /\ ~AwPending
  /\ idle' = [sock |-> IF AwWaiting THEN idle.sock + 1 ELSE idle.sock,
              peer |-> [p \in DOMAIN idle.peer |-> Bump(idle.peer[p])]]
  /\ idle' # idle
  /\ UNCHANGED <<wiring, peers, running, clock_on, queue_size, remote_peer_event, link_event, exit_event,
                 source_queue, destination_queue, remote_peer_addr_array,
                 remote_peer_port_array, proc, reset_queue, sup, restarts, aw,
                 child_proc_started_event, counters, inbox, sent, forged>>

(* -------------------------------------------------------- specifications *)
Addresses(n, roles, names) ==
  {PeerAddr(p) : p \in names}
    \cup (IF Server \in roles THEN {ServerSocket} \cup {ServerRelay(k) : k \in 1 .. n} ELSE {})
    \cup (IF roles = {Server} THEN {ClientSource(k) : k \in 1 .. n} ELSE {})
    \cup (IF Client \in roles
            THEN {Endpoint} \cup {ClientSource(k) : k \in 1 .. n}
                   \cup {ClientRelay(k) : k \in 1 .. n}
            ELSE {})

(* ------------------------------------------------------- the port wiring *)
\* __main__ before its arguments are read
Unwired == [pc |-> "args", code |-> 0, peers |-> 0, server_relay_base_port |-> 0,
            client_relay_base_port |-> 0, iport |-> 0, oport |-> 0,
            source_port |-> 0, destination_port |-> 0, relay_port |-> 0,
            bound |-> {}, handlers |-> << >>]

\* both instances are launched with the same number of peers and the same
\* base ports, the server with the public port, the client with the
\* endpoint's
main_args(n, srv, cli, ip, op) ==
  /\ \A r \in Roles : wiring[r].pc = "args"
  /\ wiring' = [r \in Roles |->
                  [Unwired EXCEPT !.pc = "validate", !.peers = n,
                                  !.server_relay_base_port = srv,
                                  !.client_relay_base_port = cli,
                                  !.iport = ip, !.oport = op]]
  /\ UNCHANGED <<peers, running, clock_on, queue_size, remote_peer_event, link_event,
                 exit_event, source_queue, destination_queue, remote_peer_addr_array,
                 remote_peer_port_array, proc, reset_queue, sup, restarts, aw,
                 child_proc_started_event, counters, inbox, sent, forged, idle>>

\* a variant of the bound below: the number of peers is not subtracted
MaxBaseAny(n) == PORTS_RANGE[2]
\* the highest base port the validation accepts
MaxBase(n) == PORTS_RANGE[2] - n
InRange(port) == port >= PORTS_RANGE[1] /\ port <= PORTS_RANGE[2]

\* the validation of the four ports, with its exit codes, then the first
\* relay port
validate_ports(role) ==
  LET w == wiring[role]
      source_port == IF role = Server THEN w.iport ELSE w.server_relay_base_port
      destination_port == IF role = Server THEN w.client_relay_base_port ELSE w.oport
      relay_port == IF role = Server THEN w.server_relay_base_port
                    ELSE w.client_relay_base_port
      code == IF w.server_relay_base_port < PORTS_RANGE[1]
                 \/ w.server_relay_base_port > MaxBase(w.peers) THEN 11
              ELSE IF w.client_relay_base_port < PORTS_RANGE[1]
                      \/ w.client_relay_base_port > MaxBase(w.peers) THEN 12
              ELSE IF ~InRange(source_port) THEN 13
              ELSE IF ~InRange(destination_port) THEN 14
              ELSE 0
  IN /\ w.pc = "validate"
     /\ wiring' = [wiring EXCEPT ![role] =
                     IF code # 0 THEN [w EXCEPT !.pc = "exit", !.code = code]
                     ELSE [w EXCEPT !.pc = IF role = Server THEN "server_handler"
                                           ELSE "handlers",
                                    !.source_port = source_port,
                                    !.destination_port = destination_port,
                                    !.relay_port = relay_port]]
     /\ UNCHANGED <<peers, running, clock_on, queue_size, remote_peer_event, link_event,
                    exit_event, source_queue, destination_queue, remote_peer_addr_array,
                    remote_peer_port_array, proc, reset_queue, sup, restarts, aw,
                    child_proc_started_event, counters, inbox, sent, forged, idle>>

\* ServerHandler.__init__: the public socket bound to the source port
create_server_handler ==
  LET w == wiring[Server]
  IN /\ w.pc = "server_handler"
     /\ wiring' = [wiring EXCEPT ![Server] =
                     [w EXCEPT !.pc = "handlers", !.bound = {w.source_port}]]
     /\ UNCHANGED <<peers, running, clock_on, queue_size, remote_peer_event, link_event,
                    exit_event, source_queue, destination_queue, remote_peer_addr_array,
                    remote_peer_port_array, proc, reset_queue, sup, restarts, aw,
                    child_proc_started_event, counters, inbox, sent, forged, idle>>

\* one turn of the loop that creates the handlers: the ports incremented,
\* then RemotePeerHandler.__init__ with its binds; a port this instance has
\* already bound makes bind raise OSError and the program exit
create_peer_handler(role) ==
  LET w == wiring[role]
      source_port == IF role = Server THEN w.source_port ELSE w.source_port + 1
      destination_port == IF role = Server THEN w.destination_port + 1
                          ELSE w.destination_port
      relay_port == w.relay_port + 1
      made == [w EXCEPT !.source_port = source_port,
                        !.destination_port = destination_port,
                        !.relay_port = relay_port]
      source_bound == IF role = Server THEN w.bound ELSE w.bound \cup {source_port}
      handler == [source_port |-> source_port, destination_port |-> destination_port,
                  relay_port |-> relay_port]
  IN /\ w.pc = "handlers"
     /\ wiring' = [wiring EXCEPT ![role] =
          IF Len(w.handlers) = w.peers THEN [w EXCEPT !.pc = "started"]
          ELSE IF role = Client /\ source_port \in w.bound
            THEN [made EXCEPT !.pc = "exit", !.code = 18]
          ELSE IF relay_port \in source_bound
            THEN [made EXCEPT !.pc = "exit", !.code = 20, !.bound = source_bound]
          ELSE [made EXCEPT !.bound = source_bound \cup {relay_port},
                            !.handlers = Append(@, handler)]]
     /\ UNCHANGED <<peers, running, clock_on, queue_size, remote_peer_event, link_event,
                    exit_event, source_queue, destination_queue, remote_peer_addr_array,
                    remote_peer_port_array, proc, reset_queue, sup, restarts, aw,
                    child_proc_started_event, counters, inbox, sent, forged, idle>>

\* the state __main__ is in once the shared memory, the queues, the events
\* and the server handler exist, before the first remote peer handler
InitSized(n, roles, names, timed, size) ==
  /\ wiring = [r \in Roles |-> Unwired]
  /\ peers = n
  /\ running = roles
  /\ clock_on = timed
  /\ queue_size = size
  /\ remote_peer_event = [r \in Roles |-> [k \in 1 .. n |-> FALSE]]
  /\ link_event = [r \in Roles |-> [k \in 1 .. n |-> FALSE]]
  /\ exit_event = [r \in Roles |-> [k \in 1 .. n |-> FALSE]]
  /\ source_queue = [r \in Roles |-> [k \in 1 .. n |-> << >>]]
  /\ destination_queue = [r \in Roles |-> [k \in 1 .. n |-> << >>]]
  /\ remote_peer_addr_array = [k \in 1 .. n |-> 0]
  /\ remote_peer_port_array = [k \in 1 .. n |-> 0]
  /\ proc = [m \in Modes |-> [k \in 1 .. n |-> NoProc]]
  /\ reset_queue = [r \in Roles |-> << >>]
  /\ sup = [r \in Roles |-> [pc |-> IF r \in roles THEN "boot" ELSE "none", peer |-> 1]]
  /\ restarts = [r \in Roles |-> 0]
  /\ aw = [pc |-> IF Server \in roles THEN "wait_started" ELSE "none",
           dict |-> EmptyDict, vacancy |-> [k \in 1 .. n |-> TRUE],
           rebound |-> FALSE, addr_list |-> [k \in 1 .. n |-> 0],
           port_list |-> [k \in 1 .. n |-> 0], held |-> "", index |-> 0,
           timeout |-> FALSE, exit |-> FALSE]
  /\ child_proc_started_event = FALSE
  /\ counters = [r \in Roles |-> [source_packet_count |-> 0,
                                  destination_packet_count |-> 0,
                                  max_packet_size |-> 0]]
  /\ inbox = [a \in Addresses(n, roles, names) |-> << >>]
  /\ sent = [peer |-> [p \in names |-> 0], endpoint |-> [k \in 1 .. n |-> 0],
             tunnel |-> [k \in 1 .. n |-> 0], ping |-> [k \in 1 .. n |-> 0]]
  /\ forged = 0
  /\ idle = [sock |-> 0, peer |-> [p \in names |-> 0]]

\* the same with the packet queue size of the configuration
InitWith(n, roles, names, timed) == InitSized(n, roles, names, timed, PACKET_QUEUE_SIZE)

AdmissionStep ==
  \/ wookiee_server_worker_begin
  \/ wookiee_server_worker_recv
  \/ wookiee_server_worker_put
  \/ wookiee_server_worker_timeout

WorkerStep(role) ==
  \E k \in Slots :
    \/ \E m \in ModesOf(role) \cap ReceiveModes :
         \/ receive_recv(m, k)
         \/ receive_put(m, k)
         \/ receive_put_reset(m, k)
         \/ receive_set_exit(m, k)
         \/ count_load(m, k)
         \/ count_store(m, k)
         \/ (m = "000" /\ (max_load(k) \/ max_store(k)))
         \/ receive_timeout(m, k)
         \/ receive_linked(m, k)
    \/ \E m \in ModesOf(role) \cap RelayModes :
         \/ relay_start(m, k)
         \/ relay_get(m, k)
         \/ relay_get_timeout(m, k)
         \/ count_load(m, k)
         \/ count_store(m, k)

ServerKeepAliveStep ==
  \E k \in Slots : relay_ka_recv(k) \/ relay_ka_while(k) \/ relay_linked(k)

ClientKeepAliveStep ==
  \E k \in Slots : receive_ka_send(k) \/ receive_ka_recv(k)

MainStep(role, max) == main_boot(role) \/ main_get(role) \/ main_join(role, max)

\* the server instance alone, two slots, three remote peers
InitServer == InitWith(2, {Server}, {"A", "B", "C"}, FALSE)
NextServer ==
  \/ AdmissionStep
  \/ WorkerStep(Server)
  \/ ServerKeepAliveStep
  \/ MainStep(Server, ServerMaxRestarts)
  \/ \E p \in PeerNames : PeerSend(p, ServerMaxSend, ServerMaxSends)
  \/ \E k \in Slots : \E ka \in BOOLEAN : TunnelSend(k, ka, ServerMaxPing, ServerMaxData)
SpecServer == InitServer /\ [][NextServer]_vars

\* the server instance alone, two slots, two remote peers, no tunnel payloads
\* and no handler restart
InitIsolation == InitWith(2, {Server}, {"A", "B"}, FALSE)
NextIsolation ==
  \/ AdmissionStep
  \/ WorkerStep(Server)
  \/ ServerKeepAliveStep
  \/ main_boot(Server)
  \/ main_get(Server)
  \/ \E p \in PeerNames : PeerSend(p, IsolationMaxSend, IsolationMaxSends)
  \/ \E k \in Slots : TunnelSend(k, TRUE, IsolationMaxPing, 0)
SpecIsolation == InitIsolation /\ [][NextIsolation]_vars

\* the same, with remote peers that also send while the supervisor is still
\* starting the handlers
NextBarrier ==
  \/ NextIsolation
  \/ \E p \in PeerNames : PeerSendEarly(p, IsolationMaxSend, IsolationMaxSends)
SpecBarrier == InitIsolation /\ [][NextBarrier]_vars

\* the server instance alone with time counted: two slots, three remote peers
InitTimed == InitWith(2, {Server}, {"A", "B", "C"}, TRUE)
NextTimed ==
  \/ AdmissionStep
  \/ WorkerStep(Server)
  \/ ServerKeepAliveStep
  \/ main_boot(Server)
  \/ \E p \in PeerNames : PeerSend(p, TimedMaxSend, TimedMaxSends)
  \/ \E k \in Slots : TunnelSend(k, TRUE, TimedMaxPing, 0)
  \/ Tick
SpecTimed == InitTimed /\ [][NextTimed]_vars

\* both instances, one slot, one remote peer, the private endpoint
Init == InitWith(1, Roles, {"A"}, FALSE)
Next ==
  \/ AdmissionStep
  \/ WorkerStep(Server)
  \/ ServerKeepAliveStep
  \/ MainStep(Server, MaxRestarts)
  \/ WorkerStep(Client)
  \/ ClientKeepAliveStep
  \/ MainStep(Client, MaxRestarts)
  \/ \E p \in PeerNames : PeerSend(p, MaxSend, MaxSend)
  \/ \E k \in Slots : EndpointSend(k, MaxReply)
Spec == Init /\ [][Next]_vars

\* both instances, one slot, a remote peer that also sends the reserved
\* payloads to the public port
NextForge ==
  \/ AdmissionStep
  \/ WorkerStep(Server)
  \/ ServerKeepAliveStep
  \/ MainStep(Server, ForgeMaxRestarts)
  \/ WorkerStep(Client)
  \/ ClientKeepAliveStep
  \/ MainStep(Client, ForgeMaxRestarts)
  \/ \E p \in PeerNames : PeerSend(p, ForgeMaxSend, ForgeMaxSend)
  \/ \E p \in PeerNames : \E d \in {KEEP_ALIVE_PACKET, KEEP_ALIVE_HALT_PACKET} :
        PeerForge(p, d, MaxForge)
SpecForge == Init /\ [][NextForge]_vars

\* the workers of a role while no tunnel idles for its connection timeout: a
\* read times out only to find the exit flag set
BusyWorkerStep(role) ==
  \E k \in Slots :
    \/ \E m \in ModesOf(role) \cap ReceiveModes :
         \/ receive_recv(m, k)
         \/ receive_put(m, k)
         \/ receive_put_reset(m, k)
         \/ receive_set_exit(m, k)
         \/ count_load(m, k)
         \/ count_store(m, k)
         \/ (m = "000" /\ (max_load(k) \/ max_store(k)))
         \/ ~TimeoutResets(m, k) /\ receive_timeout(m, k)
         \/ receive_linked(m, k)
    \/ \E m \in ModesOf(role) \cap RelayModes :
         \/ relay_start(m, k)
         \/ relay_get(m, k)
         \/ relay_get_timeout(m, k)
         \/ count_load(m, k)
         \/ count_store(m, k)

\* both instances, one slot, a remote peer that, once it has sent a payload,
\* also sends KEEP_ALIVE_PACKET to the public port; no tunnel idles
NextQuarantine ==
  \/ AdmissionStep
  \/ BusyWorkerStep(Server)
  \/ ServerKeepAliveStep
  \/ MainStep(Server, QuarantineMaxRestarts)
  \/ BusyWorkerStep(Client)
  \/ ClientKeepAliveStep
  \/ MainStep(Client, QuarantineMaxRestarts)
  \/ \E p \in PeerNames : PeerSend(p, QuarantineMaxSend, QuarantineMaxSend)
  \/ \E p \in PeerNames :
        /\ p \in DOMAIN sent.peer
        /\ sent.peer[p] > 0
        /\ PeerForge(p, KEEP_ALIVE_PACKET, QuarantineMaxForge)
SpecQuarantine == Init /\ [][NextQuarantine]_vars

\* the server instance alone, one slot, one remote peer, packet queues that
\* hold two datagrams
InitFifo == InitSized(1, {Server}, {"A"}, FALSE, FifoQueueSize)
NextFifo ==
  \/ AdmissionStep
  \/ WorkerStep(Server)
  \/ ServerKeepAliveStep
  \/ MainStep(Server, FifoMaxRestarts)
  \/ \E p \in PeerNames : PeerSend(p, FifoMaxSend, FifoMaxSend)
  \/ \E k \in Slots : \E ka \in BOOLEAN : TunnelSend(k, ka, FifoMaxPing, FifoMaxData)
SpecFifo == InitFifo /\ [][NextFifo]_vars

\* the server instance alone, one slot, two remote peers
InitSingle == InitWith(1, {Server}, {"A", "B"}, FALSE)
NextSingle ==
  \/ AdmissionStep
  \/ WorkerStep(Server)
  \/ ServerKeepAliveStep
  \/ MainStep(Server, SingleMaxRestarts)
  \/ \E p \in PeerNames : PeerSend(p, SingleMaxSend, SingleMaxSends)
  \/ \E k \in Slots : \E ka \in BOOLEAN : TunnelSend(k, ka, SingleMaxPing, SingleMaxData)
SpecSingle == InitSingle /\ [][NextSingle]_vars

\* the server instance alone with its clock, two slots, three remote peers
\* that send one payload each, the far end of the tunnel
InitCache == InitSized(2, {Server}, {"A", "B", "C"}, TRUE, CacheQueueSize)
NextCache ==
  \/ AdmissionStep
  \/ WorkerStep(Server)
  \/ ServerKeepAliveStep
  \/ main_boot(Server)
  \/ \E p \in PeerNames : PeerSend(p, CacheMaxSend, CacheMaxSends)
  \/ \E k \in Slots : \E ka \in BOOLEAN : TunnelSend(k, ka, CacheMaxPing, CacheMaxData)
  \/ Tick
SpecCache == InitCache /\ [][NextCache]_vars

\* the client instance alone, two slots, no handler restart; the server ends
\* the handshake of a slot and sends it one payload
InitCount == InitWith(CountPeers, {Client}, {}, FALSE)
NextCount ==
  \/ WorkerStep(Client)
  \/ ClientKeepAliveStep
  \/ main_boot(Client)
  \/ \E k \in Slots : TunnelDown(k, CountMaxDown)
SpecCount == InitCount /\ [][NextCount]_vars

\* the server instance alone, one slot, with a remote peer that also sends to
\* the relay port
NextTarget ==
  \/ AdmissionStep
  \/ WorkerStep(Server)
  \/ ServerKeepAliveStep
  \/ MainStep(Server, TargetMaxRestarts)
  \/ \E p \in PeerNames : PeerSend(p, TargetMaxSend, TargetMaxSend)
  \/ \E k \in Slots : TunnelSend(k, TRUE, TargetMaxPing, 0)
  \/ \E p \in PeerNames : \E k \in Slots : \E d \in {KEEP_ALIVE_PACKET, "P1"} :
       PeerProbe(p, k, d, TargetMaxProbe)
SpecTarget == InitWith(1, {Server}, {"A"}, FALSE) /\ [][NextTarget]_vars

\* the arguments, the validation and the creation of the handlers of both
\* instances; the base ports tried lie at the ends of the range, next to
\* each other and next to the public port
ServerBases == {PORTS_RANGE[1] - 1, PORTS_RANGE[1], SERVER_RELAY_BASE_PORT, iport - 1,
                PORTS_RANGE[2] - WiringPeers, PORTS_RANGE[2] - WiringPeers + 1}
ClientBases == {PORTS_RANGE[1], SERVER_RELAY_BASE_PORT + 1, CLIENT_RELAY_BASE_PORT,
                PORTS_RANGE[2] - WiringPeers, PORTS_RANGE[2]}
NextWiring ==
  \/ \E n \in 1 .. WiringPeers : \E srv \in ServerBases : \E cli \in ClientBases :
       main_args(n, srv, cli, iport, oport)
  \/ \E role \in Roles : validate_ports(role)
  \/ create_server_handler
  \/ \E role \in Roles : create_peer_handler(role)
SpecWiring == InitWith(1, {}, {}, FALSE) /\ [][NextWiring]_vars

\* both instances, one slot, one remote peer, no handler restart, and a
\* stranger that sends a KEEP_ALIVE_HALT to the client's tunnel socket
NextHandshake ==
  \/ AdmissionStep
  \/ WorkerStep(Server)
  \/ ServerKeepAliveStep
  \/ main_boot(Server)
  \/ WorkerStep(Client)
  \/ ClientKeepAliveStep
  \/ main_boot(Client)
  \/ \E p \in PeerNames : PeerSend(p, HandshakeMaxSend, HandshakeMaxSend)
  \/ \E k \in Slots : StrangerSend(k, KEEP_ALIVE_HALT_PACKET, HandshakeMaxForge)
SpecHandshake == Init /\ [][NextHandshake]_vars

\* the steps of one process of slot k
SlotWorker(m, k) ==
  \/ /\ m \in ReceiveModes
     /\ \/ receive_recv(m, k)
        \/ receive_put(m, k)
        \/ receive_put_reset(m, k)
        \/ receive_set_exit(m, k)
        \/ count_load(m, k)
        \/ count_store(m, k)
        \/ (m = "000" /\ (max_load(k) \/ max_store(k)))
        \/ receive_timeout(m, k)
        \/ receive_linked(m, k)
  \/ /\ m \in RelayModes
     /\ \/ relay_start(m, k)
        \/ relay_get(m, k)
        \/ relay_get_timeout(m, k)
        \/ count_load(m, k)
        \/ count_store(m, k)
  \/ m = "101" /\ (relay_ka_recv(k) \/ relay_ka_while(k))
  \/ m = "111" /\ relay_linked(k)
  \/ m = "000" /\ (receive_ka_send(k) \/ receive_ka_recv(k))

\* the main process of the server, shutdown included
ShutdownStep == main_signal(Server) \/ main_stop_server \/ main_stop_peers(Server)

\* the server instance alone, one slot, one remote peer, and a termination
\* signal for the main process; every process that can take a step
\* eventually takes one (the operating system schedules it), the environment
\* owes nothing
InitShutdown == InitWith(1, {Server}, {"A"}, FALSE)
NextShutdown ==
  \/ AdmissionStep
  \/ WorkerStep(Server)
  \/ ServerKeepAliveStep
  \/ MainStep(Server, ShutdownMaxRestarts)
  \/ ShutdownStep
  \/ \E p \in PeerNames : PeerSend(p, ShutdownMaxSend, ShutdownMaxSend)
  \/ \E k \in Slots : \E ka \in BOOLEAN : TunnelSend(k, ka, ShutdownMaxPing, ShutdownMaxData)
SpecShutdown ==
  /\ InitShutdown
  /\ [][NextShutdown]_vars
  /\ WF_vars(AdmissionStep)
  /\ WF_vars(MainStep(Server, ShutdownMaxRestarts))
  /\ WF_vars(main_stop_server)
  /\ WF_vars(main_stop_peers(Server))
  /\ \A m \in ModesOf(Server) : WF_vars(SlotWorker(m, 1))

\* the client instance alone, two slots, the server's reserved payloads; every
\* process that can take a step eventually takes one (the operating system
\* schedules it), the environment owes nothing
InitServed == InitWith(ServedPeers, {Client}, {}, FALSE)
NextServed ==
  \/ WorkerStep(Client)
  \/ ClientKeepAliveStep
  \/ MainStep(Client, ServedMaxRestarts)
  \/ \E k \in Slots : \E data \in {KEEP_ALIVE_PACKET, KEEP_ALIVE_HALT_PACKET} :
        ServerSend(k, data, ServedMaxForge)
SpecServed ==
  /\ InitServed
  /\ [][NextServed]_vars
  /\ WF_vars(MainStep(Client, ServedMaxRestarts))
  /\ \A m \in ModesOf(Client) : \A k \in 1 .. ServedPeers : WF_vars(SlotWorker(m, k))

(* ------------------------------------------------------------ properties *)
Payloads(log) == [i \in DOMAIN log |-> log[i].data]
IsPrefix(s, t) == Len(s) <= Len(t) /\ \A i \in 1 .. Len(s) : s[i] = t[i]
\* what the private endpoint has received, what a remote peer has received
EndpointLog == Payloads(inbox[Endpoint])
PeerLog(p) == Payloads(inbox[PeerAddr(p)])
\* what the environment has sent so far
PeerSent(p) == SubSeq(PeerBodies(p), 1, sent.peer[p])
EndpointSent(k) == SubSeq(EndpointBodies, 1, sent.endpoint[k])

\* C1 (Transparency): what client-source-relay has transmitted to the private
\* endpoint is, payload for payload and in order, what the remote peer has
\* sent to the public port, and what the peer has received is what the
\* endpoint has sent on the slot
Transparency ==
  /\ IsPrefix(EndpointLog, PeerSent("A"))
  /\ IsPrefix(PeerLog("A"), EndpointSent(1))

\* a *-destination-relay worker of slot k transmits in this step
Transmits(role, k) ==
  /\ Len(destination_queue'[role][k]) < Len(destination_queue[role][k])
  /\ inbox' # inbox

\* C5 (Handshake barrier): on both roles, a *-destination-relay worker
\* transmits a downstream datagram only when the link flag of its slot
\* incarnation is set
HandshakeBarrier ==
  [][\A role \in Roles : \A k \in Slots : Transmits(role, k) => link_event[role][k]]_vars

\* C6 (Keep-alive isolation): no datagram transmitted to the private endpoint
\* carries KEEP_ALIVE_PACKET or KEEP_ALIVE_HALT_PACKET
KeepAliveIsolation ==
  \A i \in DOMAIN EndpointLog :
     EndpointLog[i] \notin {KEEP_ALIVE_PACKET, KEEP_ALIVE_HALT_PACKET}

\* the keep-alive phase sets the link flag of slot k in this step
LinkSet(role, k) == ~link_event[role][k] /\ link_event'[role][k]

\* C7 (Handshake invariant): when the keep-alive phase sets a link flag, the
\* client has received a KEEP_ALIVE from the server, the server has received
\* a KEEP_ALIVE from the client, and the server's tunnel target is the
\* client's address
HandshakeInvariant ==
  [][\A role \in Roles : \A k \in Slots :
       LinkSet(role, k) =>
         /\ proc'["000"][k].pcr
         /\ proc'["101"][k].pcr
         /\ proc'["101"][k].addr = ClientSource(k)]_vars

\* C7 as the code has it: the client sets its link flag on a
\* KEEP_ALIVE_HALT from the configured server (or on the exit flag), the
\* server once the remote-peer flag (or the exit flag) is set, after at least
\* one datagram of any payload, whose sender is its tunnel target
HandshakeHalted ==
  [][\A k \in Slots :
       /\ LinkSet(Client, k) =>
            \/ exit_event[Client][k]
            \/ /\ proc["000"][k].held = KEEP_ALIVE_HALT_PACKET
               /\ proc["000"][k].addr = ServerRelay(k)
       /\ LinkSet(Server, k) =>
            /\ exit_event[Server][k] \/ remote_peer_event[Server][k]
            /\ proc["101"][k].held # ""
            /\ proc'["101"][k].addr = ClientSource(k)]_vars

\* both link flags are set, the client's on a KEEP_ALIVE_HALT that was the
\* first datagram it received: it has seen no KEEP_ALIVE from the server
LinkedOnHalt ==
  /\ link_event[Client][1]
  /\ link_event[Server][1]
  /\ ~exit_event[Client][1]
  /\ ~exit_event[Server][1]
  /\ ~proc["000"][1].pcr
  /\ proc["101"][1].addr = ClientSource(1)

\* C8 (Tunnel reset recovery, its safety part): in an incarnation started by
\* a reset no worker of the slot terminates abnormally
ResetRecovery ==
  \A m \in Modes : \A k \in Slots :
     restarts[RoleOf(m)] > 0 => proc[m][k].pc # "crashed"

\* the remote peer a payload comes from
Origin(data) == CHOOSE p \in PeerNames : \E i \in DOMAIN PeerBodies(p) : PeerBodies(p)[i] = data
IsPeerPayload(data) == \E p \in PeerNames : \E i \in DOMAIN PeerBodies(p) : PeerBodies(p)[i] = data
\* peers a and b are admitted at the same time, a to slot i and b to slot j
AdmittedTo(a, i) == PeerAddr(a) \in DOMAIN aw.dict /\ aw.dict[PeerAddr(a)] = i
\* the admission worker enqueues, the source-relay of slot j transmits
EnqueuedOn(j) ==
  IF Len(source_queue'[Server][j]) > Len(source_queue[Server][j])
    THEN {source_queue'[Server][j][Len(source_queue'[Server][j])]} ELSE {}
TransmittedBy(j) ==
  IF Len(source_queue'[Server][j]) < Len(source_queue[Server][j]) /\ inbox' # inbox
    THEN {Head(source_queue[Server][j])} ELSE {}

\* C2 (Isolation): while two peers are admitted to different slots i and j,
\* no datagram of the peer of slot i is enqueued on the upstream queue of
\* slot j or transmitted by the source-relay of slot j
Isolation ==
  [][\A a, b \in PeerNames : \A i, j \in Slots :
       (a # b /\ i # j /\ AdmittedTo(a, i) /\ AdmittedTo(b, j)) =>
          \A d \in EnqueuedOn(j) \cup TransmittedBy(j) : IsPeerPayload(d) => Origin(d) # a]_vars

\* C3 (Capacity): the admission map never holds more addresses than slots
Capacity == Cardinality(DOMAIN aw.dict) <= peers

\* a third address has taken the place of an evicted one, the map is full
CapacityReached ==
  /\ ~aw.rebound
  /\ PeerAddr("C") \in DOMAIN aw.dict
  /\ Cardinality(DOMAIN aw.dict) = peers

\* the admission worker handles a datagram of an address it does not map
NewPeerStep ==
  /\ aw.pc = "recv"
  /\ inbox[ServerSocket] # <<>>
  /\ Head(inbox[ServerSocket]).src \notin DOMAIN aw.dict
  /\ inbox'[ServerSocket] = Tail(inbox[ServerSocket])

\* C4 (Eviction fairness): every slot the new-peer path evicts has its
\* remote-peer flag cleared; a slot whose flag is set keeps its peer
EvictionFairness ==
  [][NewPeerStep =>
       \A a \in DOMAIN aw.dict :
          a \notin DOMAIN aw'.dict => ~remote_peer_event[Server][aw.dict[a]]]_vars

\* with the map full, the new-peer path has evicted A from its reset slot
\* and kept B, whose flag is set
EvictedOne ==
  /\ ~aw.rebound
  /\ PeerAddr("C") \in DOMAIN aw.dict
  /\ PeerAddr("B") \in DOMAIN aw.dict
  /\ PeerAddr("A") \notin DOMAIN aw.dict
  /\ restarts[Server] > 0

\* C9 (Reply routing): server-destination-relay of slot k transmits a
\* downstream datagram to the peer the admission worker maps to slot k, never
\* to another address while a peer is mapped to the slot
ReplyRouting ==
  [][\A k \in Slots :
       Transmits(Server, k) =>
          \A a \in DOMAIN aw.dict : aw.dict[a] = k => proc["111"][k].addr = a]_vars

\* the admission worker handles a datagram of C, new to it, while A and B
\* are mapped and A has been silent for longer than the timeout
PressureStep ==
  /\ NewPeerStep
  /\ Head(inbox[ServerSocket]).src = PeerAddr("C")
  /\ PeerAddr("A") \in DOMAIN aw.dict
  /\ PeerAddr("B") \in DOMAIN aw.dict
  /\ idle.peer["A"] > SERVER_PEER_CONNECTION_TIMEOUT

\* C10 (Eviction under pressure): with A and B admitted and A silent for
\* longer than SERVER_PEER_CONNECTION_TIMEOUT, the datagram of a new peer C
\* admits C into the slot of A and removes the address of A from the map
EvictionUnderPressure ==
  [][PressureStep =>
       /\ PeerAddr("A") \notin DOMAIN aw'.dict
       /\ PeerAddr("C") \in DOMAIN aw'.dict
       /\ aw'.dict[PeerAddr("C")] = aw.dict[PeerAddr("A")]]_vars

\* C10 as the code has it: the map is purged only when the public port has
\* been idle for SERVER_PEER_CONNECTION_TIMEOUT, whoever was silent; a new
\* peer that finds the map full of slots whose flags are set is ignored and
\* the map keeps A; a new peer that finds the map purged gets the lowest slot
EvictionOnIdle ==
  [][/\ (aw.dict # EmptyDict /\ aw'.dict = EmptyDict) =>
          idle.sock >= SERVER_PEER_CONNECTION_TIMEOUT
     /\ (NewPeerStep /\ Cardinality(DOMAIN aw.dict) = peers
           /\ \A k \in Slots : remote_peer_event[Server][k]) =>
          aw'.dict = aw.dict
     /\ (NewPeerStep /\ aw.dict = EmptyDict) =>
          /\ DOMAIN aw'.dict = {Head(inbox[ServerSocket]).src}
          /\ aw'.dict[Head(inbox[ServerSocket]).src] = 1]_vars

\* the datagram of C has been ignored although A was silent for longer than
\* the timeout: B kept the public port busy
Ignored ==
  /\ sent.peer["C"] = 1
  /\ inbox[ServerSocket] = << >>
  /\ aw.pc = "recv"
  /\ PeerAddr("C") \notin DOMAIN aw.dict
  /\ PeerAddr("A") \in DOMAIN aw.dict
  /\ idle.peer["A"] > SERVER_PEER_CONNECTION_TIMEOUT

\* the admission worker handles a datagram of an address it maps
KnownPeerStep ==
  /\ aw.pc = "recv"
  /\ inbox[ServerSocket] # <<>>
  /\ Head(inbox[ServerSocket]).src \in DOMAIN aw.dict
  /\ inbox'[ServerSocket] = Tail(inbox[ServerSocket])

\* every slot is taken and its remote-peer flag is set
Oversubscribed == \A k \in Slots : ~aw.vacancy[k] /\ remote_peer_event[Server][k]

\* the datagram the admission worker reads is put on the upstream queue of
\* slot s, at once or when the queue has room, and on no other queue
PutOn(s) ==
  LET data == Head(inbox[ServerSocket]).data
  IN /\ \A j \in Slots : j # s => source_queue'[Server][j] = source_queue[Server][j]
     /\ \/ source_queue'[Server][s] = Append(source_queue[Server][s], data)
        \/ /\ Full(source_queue[Server][s])
           /\ source_queue'[Server][s] = source_queue[Server][s]
           /\ aw'.pc = "put" /\ aw'.held = data /\ aw'.index = s

\* C11 (Oversubscription): with every slot taken and every remote-peer flag
\* set, a datagram of an address the map does not hold is dropped: no queue,
\* map, vacancy vector, peer-slot array, flag or counter changes, and the
\* admission worker goes on to put the datagrams of the admitted peers on
\* their slots
Oversubscription ==
  [][/\ (NewPeerStep /\ Oversubscribed) =>
          /\ aw'.dict = aw.dict
          /\ aw'.vacancy = aw.vacancy
          /\ aw'.addr_list = aw.addr_list
          /\ aw'.port_list = aw.port_list
          /\ aw'.pc = "recv"
          /\ UNCHANGED <<source_queue, remote_peer_addr_array, remote_peer_port_array,
                         remote_peer_event, counters>>
     /\ (KnownPeerStep /\ Oversubscribed) =>
          PutOn(aw.dict[Head(inbox[ServerSocket]).src])]_vars

\* the datagram of C has been dropped, A2, which A can only have sent after
\* that, is on the queue of A's slot
DroppedThenServed ==
  /\ Oversubscribed
  /\ sent.peer["C"] = 1
  /\ sent.peer["B"] = 1
  /\ PeerAddr("C") \notin DOMAIN aw.dict
  /\ PeerAddr("A") \in DOMAIN aw.dict
  /\ source_queue[Server][aw.dict[PeerAddr("A")]] = <<"A2">>
  /\ inbox[ServerSocket] = << >>
  /\ aw.pc = "recv"

\* C12 (Keep-alive quarantine), as far as a finite run shows it: a
\* KEEP_ALIVE_PACKET an admitted peer sends to the public port is not
\* forwarded to the endpoint, and the reset of the slot it causes, on the
\* client and then on the server, leaves no worker of the slot terminated
\* abnormally (a dead server-source-relay never sets the link flag, so that
\* no datagram is relayed again)
KeepAliveQuarantine ==
  /\ \A i \in DOMAIN EndpointLog : EndpointLog[i] # KEEP_ALIVE_PACKET
  /\ (forged > 0 /\ restarts[Client] > 0 /\ restarts[Server] > 0) =>
        \A m \in Modes : \A k \in Slots : proc[m][k].pc # "crashed"

\* C13 (Cooperative cancellation): once the exit flag of a slot is set, every
\* worker of the slot's incarnation eventually exits
CooperativeCancellation ==
  \A k \in 1 .. 1 : exit_event[Server][k] ~> Joined(Server, k)

\* C14 (Clean shutdown): once the main process has received the termination
\* signal and set the exit flags, the shutdown completes: the admission
\* worker and the slot workers stop and the joins return
CleanShutdown ==
  (sup[Server].pc \in {"stop_server", "stop_peers"}) ~> (sup[Server].pc = "stopped")

\* a step leaves queue q alone, puts one datagram at its tail, or takes its
\* head, and a datagram that leaves a socket of the program in that step
\* carries that head
Delivered(data) ==
  \/ inbox' = inbox
  \/ \E a \in DOMAIN inbox :
        /\ inbox'[a] # inbox[a]
        /\ Len(inbox'[a]) = Len(inbox[a]) + 1
        /\ inbox'[a][Len(inbox'[a])].data = data
FifoStep(q, r) ==
  \/ r = q
  \/ Len(r) = Len(q) + 1 /\ SubSeq(r, 1, Len(q)) = q
  \/ q # << >> /\ r = Tail(q) /\ Delivered(Head(q))

\* C15 (Per-channel FIFO): on every slot and in both directions the relay
\* worker takes the datagrams off the queue in the order in which they were
\* put, each once, and transmits what it took, whatever resets happen
PerChannelFifo ==
  [][\A role \in Roles : \A k \in Slots :
       /\ FifoStep(source_queue[role][k], source_queue'[role][k])
       /\ FifoStep(destination_queue[role][k], destination_queue'[role][k])]_vars
\* in an incarnation started by a reset the downstream queue of the server
\* holds two payloads in the order of their arrival and
\* server-destination-relay is about to take one
FifoAcrossReset ==
  /\ restarts[Server] > 0
  /\ destination_queue[Server][1] = <<"E1", "E2">>
  /\ proc["111"][1].pc = "get"

\* the supervisor of the role restarts the handler of slot k in this step
ResetOf(role, k) ==
  /\ sup[role].pc = "join"
  /\ sup[role].peer = k
  /\ restarts'[role] = restarts[role] + 1
\* the addresses the admission map sends to slot j
MappedTo(dict, j) == {a \in DOMAIN dict : dict[a] = j}

\* C16 (Reset non-interference): the step in which the supervisor, having
\* joined the workers of slot k, starts the handler of k again leaves the
\* link, remote-peer and exit flags, the two queues, the admission mapping
\* and the workers of every other slot as they were
ResetNonInterference ==
  [][\A role \in Roles : \A k, j \in Slots :
       (ResetOf(role, k) /\ j # k) =>
          /\ link_event'[role][j] = link_event[role][j]
          /\ remote_peer_event'[role][j] = remote_peer_event[role][j]
          /\ exit_event'[role][j] = exit_event[role][j]
          /\ source_queue'[role][j] = source_queue[role][j]
          /\ destination_queue'[role][j] = destination_queue[role][j]
          /\ MappedTo(aw'.dict, j) = MappedTo(aw.dict, j)
          /\ \A m \in ModesOf(role) : proc'[m][j] = proc[m][j]]_vars
\* slot 1 has been reset while peer B is admitted to slot 2, its flag set and
\* its payload waiting on the queue of slot 2 for the handshake
ResetBesideBusySlot ==
  /\ restarts[Server] = 1
  /\ sup[Server].pc = "get"
  /\ proc["101"][1] = NewProc
  /\ AdmittedTo("B", 2)
  /\ remote_peer_event[Server][2]
  /\ source_queue[Server][2] = <<"B1">>
  /\ proc["101"][2].pc = "ka_recv"

\* the slots a new peer can be given: the vacant ones, or, when none is
\* vacant, the ones the eviction scan vacates
VacantForNew ==
  IF \E k \in Slots : aw.vacancy[k] THEN {k \in Slots : aw.vacancy[k]}
  ELSE {k \in Slots : ~remote_peer_event[Server][k]}

\* C17 (Admission of a new peer): a datagram of an unmapped address, with a
\* slot vacant after the scan, maps the address to the lowest vacant slot s,
\* writes the address and the port into the shared entries of s, marks s
\* non-vacant, sets the remote-peer flag of s and puts the payload on the
\* upstream queue of s and on no other
AdmissionOfNewPeer ==
  [][(NewPeerStep /\ VacantForNew # {}) =>
       LET s == Lowest(VacantForNew)
           iaddr == Head(inbox[ServerSocket]).src
       IN /\ iaddr \in DOMAIN aw'.dict
          /\ aw'.dict[iaddr] = s
          /\ remote_peer_addr_array'[s] = inet_aton(iaddr[1])
          /\ remote_peer_port_array'[s] = iaddr[2]
          /\ ~aw'.vacancy[s]
          /\ remote_peer_event'[Server][s]
          /\ PutOn(s)]_vars

\* the admission worker is about to read the datagram of a new peer while
\* no slot is vacant
ScanDue ==
  /\ aw.pc = "recv"
  /\ inbox[ServerSocket] # << >>
  /\ Head(inbox[ServerSocket]).src \notin DOMAIN aw.dict
  /\ \A k \in Slots : ~aw.vacancy[k]

\* C18 (Eviction scan): when a new peer arrives and no slot is vacant, after
\* the scan every slot whose flag was cleared has no address mapped to it,
\* zero in its shared address and port entries and is vacant; a slot whose
\* flag is set keeps its mapping, its entries and stays taken
EvictionScan ==
  ScanDue =>
    \A v \in Slots :
       IF ~remote_peer_event[Server][v]
         THEN /\ MappedTo(Scanned.dict, v) = {}
              /\ SharedAddrScanned[v] = 0
              /\ SharedPortScanned[v] = 0
              /\ Scanned.vacancy[v]
         ELSE /\ MappedTo(Scanned.dict, v) = MappedTo(aw.dict, v)
              /\ SharedAddrScanned[v] = remote_peer_addr_array[v]
              /\ SharedPortScanned[v] = remote_peer_port_array[v]
              /\ ~Scanned.vacancy[v]

\* C19 (Reinstatement): a datagram of an address mapped to slot s leaves the
\* map and the vacancy vector as they are, the remote-peer flag of s is set
\* after it and the payload is put on the upstream queue of s
Reinstatement ==
  [][KnownPeerStep =>
       LET s == aw.dict[Head(inbox[ServerSocket]).src]
       IN /\ aw'.dict = aw.dict
          /\ aw'.vacancy = aw.vacancy
          /\ remote_peer_event'[Server][s]
          /\ PutOn(s)]_vars
\* slot 1 was reset with A mapped to it, and the next payload of A has set
\* its flag again and waits on its queue
Reinstated ==
  /\ restarts[Server] = 1
  /\ ~aw.rebound
  /\ AdmittedTo("A", 1)
  /\ sent.peer["A"] = 2
  /\ inbox[ServerSocket] = << >>
  /\ remote_peer_event[Server][1]
  /\ source_queue[Server][1] = <<"A2">>

\* the wait of the admission worker on the public port times out in this step
TimeoutStep ==
  /\ aw.pc = "recv"
  /\ aw.timeout
  /\ inbox[ServerSocket] = << >>
  /\ idle.sock >= SERVER_PEER_CONNECTION_TIMEOUT
  /\ idle'.sock = 0

\* C20 (Idle purge): a timeout with a non-empty map empties the map, makes
\* every slot vacant and leaves zero in the shared address and port entry of
\* every slot; a timeout with an empty map changes nothing
IdlePurge ==
  [][TimeoutStep =>
       IF DOMAIN aw.dict # {}
         THEN /\ aw'.dict = EmptyDict
              /\ \A k \in Slots : aw'.vacancy[k]
              /\ \A k \in Slots : remote_peer_addr_array'[k] = 0
              /\ \A k \in Slots : remote_peer_port_array'[k] = 0
         ELSE /\ aw'.dict = aw.dict
              /\ aw'.vacancy = aw.vacancy
              /\ UNCHANGED <<remote_peer_addr_array, remote_peer_port_array,
                             remote_peer_event, source_queue, counters>>]_vars

\* the socket read of receive worker m of slot k times out in this step
TimeoutOf(m, k) ==
  /\ proc[m][k].pc = "recv"
  /\ proc[m][k].armed
  /\ inbox[SocketOf(m, k)] = << >>
  /\ proc'[m][k] # proc[m][k]
\* worker m of slot k puts k on the reset channel in this step, or blocks in
\* the put while the channel is full; exit_event.set() is its next statement
PutsReset(m, k) ==
  LET role == RoleOf(m)
  IN \/ /\ reset_queue'[role] = Append(reset_queue[role], k)
        /\ proc'[m][k].pc = "set_exit"
     \/ /\ Len(reset_queue[role]) >= peers
        /\ reset_queue'[role] = reset_queue[role]
        /\ proc'[m][k].pc = "put_reset"
\* a worker that has asked for the reset goes on to set the exit flag
ThenSetsExit(m, k) ==
  LET role == RoleOf(m)
  IN /\ (proc[m][k].pc = "put_reset" /\ proc'[m][k] # proc[m][k]) =>
          /\ reset_queue'[role] = Append(reset_queue[role], k)
          /\ proc'[m][k].pc = "set_exit"
     /\ (proc[m][k].pc = "set_exit" /\ proc'[m][k] # proc[m][k]) =>
          /\ exit_event'[role][k]
          /\ reset_queue'[role] = reset_queue[role]

\* C21 (Timeout policy): a socket-read timeout of a *-destination-receive
\* worker whose exit flag is not set puts the index of the slot on the reset
\* channel and sets the exit flag; a socket-read timeout of
\* client-source-receive puts nothing on the reset channel and leaves the
\* exit flag as it is
TimeoutPolicy ==
  [][\A k \in Slots :
       /\ \A m \in {"010", "110"} :
            /\ (TimeoutOf(m, k) /\ ~exit_event[RoleOf(m)][k]) => PutsReset(m, k)
            /\ ThenSetsExit(m, k)
       /\ TimeoutOf("000", k) =>
            /\ reset_queue'[Client] = reset_queue[Client]
            /\ exit_event'[Client][k] = exit_event[Client][k]]_vars
\* client-destination-receive has timed out and put the slot on the reset
\* channel, about to set the exit flag, while client-source-receive, its
\* timeout armed, goes on reading
TimedOutOnce ==
  /\ proc["010"][1].pc = "set_exit"
  /\ reset_queue[Client] = <<1>>
  /\ ~exit_event[Client][1]
  /\ proc["000"][1].pc = "recv"
  /\ proc["000"][1].armed

\* receive worker m of slot k reads, in its main loop, a datagram that
\* carries one of the two reserved payloads
ReadsReserved(m, k) ==
  /\ proc[m][k].pc = "recv"
  /\ inbox[SocketOf(m, k)] # << >>
  /\ Head(inbox[SocketOf(m, k)]).data \in {KEEP_ALIVE_PACKET, KEEP_ALIVE_HALT_PACKET}
  /\ inbox'[SocketOf(m, k)] = Tail(inbox[SocketOf(m, k)])

\* C22 (Keep-alive filter in steady state): a receive worker never enqueues a
\* datagram that carries KEEP_ALIVE or KEEP_ALIVE_HALT; a
\* *-destination-receive worker that reads one asks for a reset,
\* client-source-receive discards it, asks for no reset and leaves the exit
\* flag as it is
KeepAliveFilter ==
  [][\A k \in Slots : \A m \in ReceiveModes :
       ReadsReserved(m, k) =>
         /\ source_queue'[RoleOf(m)][k] = source_queue[RoleOf(m)][k]
         /\ destination_queue'[RoleOf(m)][k] = destination_queue[RoleOf(m)][k]
         /\ proc'[m][k].pc # "put"
         /\ IF IsDestinationReceive(m) THEN PutsReset(m, k)
            ELSE /\ reset_queue'[RoleOf(m)] = reset_queue[RoleOf(m)]
                 /\ exit_event'[RoleOf(m)][k] = exit_event[RoleOf(m)][k]
                 /\ proc'[m][k].pc \notin {"put_reset", "set_exit"}]_vars

\* what has been delivered to the address server-source-relay of slot k
\* holds as the sender of the last keep-alive datagram
TargetLog(k) ==
  IF proc["101"][k].addr \in DOMAIN inbox THEN inbox[proc["101"][k].addr] ELSE << >>

\* C23 (Server handshake completion): when server-source-relay sets the link
\* flag with the exit flag unset, the last datagram it has sent is a
\* KEEP_ALIVE_HALT to the address it fixes as tunnel target
HandshakeCompletion ==
  [][\A k \in Slots :
       (LinkSet(Server, k) /\ ~exit_event[Server][k]) =>
          /\ TargetLog(k) # << >>
          /\ TargetLog(k)[Len(TargetLog(k))].src = ServerRelay(k)
          /\ TargetLog(k)[Len(TargetLog(k))].data = KEEP_ALIVE_HALT_PACKET]_vars

\* server-source-relay of slot k is past its handshake phase
PastHandshake(k) == proc["101"][k].pc \in {"get", "done", "crashed"}

\* C24 (Server handshake runs in every incarnation): in every incarnation
\* server-source-relay is past its handshake phase only after it has received
\* a datagram on the relay socket and recorded its sender as tunnel target,
\* and only then is the link flag of the incarnation set
HandshakeRuns ==
  \A k \in Slots :
     /\ PastHandshake(k) =>
          /\ proc["101"][k].held # ""
          /\ proc["101"][k].addr # NoAddr
     /\ link_event[Server][k] => proc["101"][k].addr # NoAddr

\* client-source-receive of slot k reads a datagram in its keep-alive loop
KaReads(k) ==
  /\ proc["000"][k].pc = "ka_recv"
  /\ inbox[ClientSource(k)] # << >>
  /\ inbox'[ClientSource(k)] = Tail(inbox[ClientSource(k)])
\* the datagram it reads is a KEEP_ALIVE_HALT of the configured server
HaltOfServer(k) ==
  /\ Head(inbox[ClientSource(k)]).data = KEEP_ALIVE_HALT_PACKET
  /\ Head(inbox[ClientSource(k)]).src = ServerRelay(k)

\* C25 (Client handshake): the remote-peer flag of a client slot is set only
\* by the keep-alive loop reading a KEEP_ALIVE_HALT from the configured
\* server address; a datagram from another address or with another payload
\* leaves the flag unset and the loop goes on; the link flag is set only
\* after the loop has ended
ClientHandshake ==
  [][\A k \in Slots :
       /\ (~remote_peer_event[Client][k] /\ remote_peer_event'[Client][k]) =>
             KaReads(k) /\ HaltOfServer(k)
       /\ (KaReads(k) /\ ~HaltOfServer(k)) =>
             /\ ~remote_peer_event'[Client][k]
             /\ ~link_event'[Client][k]
             /\ proc'["000"][k].pc = "ka_send"
       /\ LinkSet(Client, k) =>
             /\ proc["000"][k].pc = "ka_send"
             /\ remote_peer_event[Client][k] \/ exit_event[Client][k]]_vars
\* the loop has read the KEEP_ALIVE_HALT of the stranger and goes on, the
\* flag unset
StrangerIgnored ==
  /\ proc["000"][1].pc = "ka_send"
  /\ proc["000"][1].held = KEEP_ALIVE_HALT_PACKET
  /\ proc["000"][1].addr = StrangerAddr
  /\ ~remote_peer_event[Client][1]
  /\ ~link_event[Client][1]

\* server-destination-relay of slot k takes a downstream datagram off its
\* queue
DownstreamTaken(k) ==
  /\ destination_queue[Server][k] # << >>
  /\ destination_queue'[Server][k] = Tail(destination_queue[Server][k])

\* C26 (Remote-peer-address cache): the address server-destination-relay of
\* slot k has cached is a non-zero address and port; every downstream datagram
\* it takes off the queue is sent to the cached address; the cached address
\* changes only on a reset of the slot
RemotePeerAddrCache ==
  [][\A k \in Slots :
       /\ proc'["111"][k].cached =>
             /\ proc'["111"][k].addr[1] # NoAddr[1]
             /\ proc'["111"][k].addr[2] # NoAddr[2]
       /\ (proc["111"][k].cached /\ ~ResetOf(Server, k)) =>
             /\ proc'["111"][k].cached
             /\ proc'["111"][k].addr = proc["111"][k].addr
       /\ DownstreamTaken(k) =>
             /\ proc["111"][k].cached
             /\ inbox' = sendto(inbox, SocketOf("111", k),
                                Head(destination_queue[Server][k]),
                                proc["111"][k].addr)]_vars

\* a worker of slot k of the instance is still running
SomeAlive(role, k) == \E m \in ModesOf(role) : is_alive(proc[m][k])
\* the workers a handler start has spawned for slot k
Spawned(role, k) ==
  {m \in ModesOf(role) : proc'[m][k] = [NewProc EXCEPT !.pc =
                                           IF m \in ReceiveModes THEN ReceiveEntry(m)
                                           ELSE "start"]}

\* C27 (Reset procedure): the supervisor starts the next incarnation of a
\* slot only when every worker of the previous one has terminated; the start
\* clears the exit, link and remote-peer flags and spawns three workers on
\* the server and four on the client; the exit flag is never cleared, and no
\* worker is spawned, while a worker of the previous incarnation still runs
ResetProcedure ==
  [][\A role \in Roles : \A k \in Slots :
       /\ ResetOf(role, k) =>
             /\ ~SomeAlive(role, k)
             /\ ~exit_event'[role][k]
             /\ ~link_event'[role][k]
             /\ ~remote_peer_event'[role][k]
             /\ Spawned(role, k) = ModesOf(role)
             /\ Cardinality(Spawned(role, k)) = IF role = Server THEN 3 ELSE 4
       /\ (exit_event[role][k] /\ ~exit_event'[role][k]) => ~SomeAlive(role, k)
       /\ (\E m \in ModesOf(role) : ~is_alive(proc[m][k]) /\ is_alive(proc'[m][k])) =>
             ~SomeAlive(role, k)]_vars
\* both instances have reset their slot and the four workers of the client's
\* new incarnation run
ResetTwice ==
  /\ restarts[Client] > 0
  /\ restarts[Server] > 0
  /\ \A m \in ModesOf(Client) : is_alive(proc[m][1])
  /\ ~exit_event[Client][1]

\* a worker puts slot k on the reset channel of the instance
PutOf(role, k) == reset_queue'[role] = Append(reset_queue[role], k)
\* the supervisor takes slot k off the reset channel
GetOf(role, k) ==
  /\ sup[role].pc = "get"
  /\ sup'[role].pc = "join"
  /\ sup'[role].peer = k
\* a request of the running incarnation of slot k is on the channel or being
\* served
Requested(role, k) ==
  \/ k \in Range(reset_queue[role])
  \/ sup[role].pc = "join" /\ sup[role].peer = k

\* C29 (One reset request per incarnation): a worker puts slot k on the reset
\* channel only if no request of the running incarnation of k is on the
\* channel or being served; the slot of every entry the supervisor dequeues
\* has its exit flag set at that moment; the channel never holds more than
\* peers entries
OneResetRequest ==
  [][\A role \in Roles : \A k \in Slots :
       /\ PutOf(role, k) => ~Requested(role, k)
       /\ GetOf(role, k) => exit_event[role][k]
       /\ Len(reset_queue'[role]) <= peers]_vars

\* the supervisor starts the handler of slot k: at boot, or on a reset
StartOf(role, k) ==
  \/ ResetOf(role, k)
  \/ sup[role].pc = "boot" /\ sup[role].peer = k /\ sup'[role] # sup[role]
\* the worker whose keep-alive phase ends with link_event.set()
LinkSetter(role) == IF role = Client THEN "000" ELSE "101"
\* that worker of slot k leaves its keep-alive phase by the end of the loop
EndsKeepAlive(role, k) ==
  /\ proc[LinkSetter(role)][k].pc \in {"ka_send", "ka_while"}
  /\ proc'[LinkSetter(role)][k].pc \notin {"ka_send", "ka_recv", "ka_while"}
  /\ ~StartOf(role, k)

\* C30 (One-shot flags): the link, remote-peer and exit flags of a slot go
\* from set to unset only in the supervisor's start of the slot's handler; the
\* link flag goes from unset to set only in the step that ends the keep-alive
\* phase of client-source-receive (client) or server-source-relay (server),
\* a step that no incarnation takes with the link flag already set
OneShotFlags ==
  [][\A role \in Roles : \A k \in Slots :
       /\ (\/ link_event[role][k] /\ ~link_event'[role][k]
           \/ remote_peer_event[role][k] /\ ~remote_peer_event'[role][k]
           \/ exit_event[role][k] /\ ~exit_event'[role][k]) => StartOf(role, k)
       /\ LinkSet(role, k) =>
             /\ EndsKeepAlive(role, k)
             /\ \A m \in Modes \ {LinkSetter(role)} : proc'[m] = proc[m]
             /\ aw' = aw /\ sup' = sup
       /\ EndsKeepAlive(role, k) => LinkSet(role, k)]_vars
\* both slots have been linked again by their second incarnation
LinkedAgain ==
  /\ restarts[Client] > 0
  /\ restarts[Server] > 0
  /\ link_event[Client][1]
  /\ link_event[Server][1]

\* the supervisor of the instance is joining the workers of slot k
Joining(role, k) == sup[role].pc = "join" /\ sup[role].peer = k

\* C28 (Reset requests are served): once the exit flag of a slot is set and
\* a request for the slot is on the reset channel or being served, the
\* supervisor eventually starts the next incarnation of the slot (which
\* clears the flag), whatever is pending for the other slot; the supervisor
\* does not stay for ever in the joins of a slot whose exit flag is not set
ResetsServed ==
  \A k \in 1 .. ServedPeers :
     /\ (exit_event[Client][k] /\ Requested(Client, k)) ~> ~exit_event[Client][k]
     /\ []<>(~(Joining(Client, k) /\ ~exit_event[Client][k]))

\* the upstream datagrams the client has enqueued: those still on the
\* upstream queues and those client-source-relay has delivered
Upstream == [k \in Slots |-> source_queue[Client][k]]
RECURSIVE Flat(_, _)
Flat(f, k) == IF k = 0 THEN << >> ELSE Flat(f, k - 1) \o f[k]
EnqueuedUpstream == Flat(Upstream, peers) \o Payloads(inbox[Endpoint])
\* a worker is in the accounting of a datagram
Accounting(m, k) == proc[m][k].pc \in {"load_count", "store_count", "load_max", "store_max"}
\* a worker completes an increment of its counter
Counts(m, k) == proc[m][k].pc = "store_count" /\ proc'[m][k].pc # "store_count"

\* C31 (Counter exactness): whenever no client-source-receive worker is in
\* its accounting, the inbound counter equals the number of datagrams
\* enqueued on the upstream queues; every increment a worker completes, of
\* the inbound or of the outbound counter, raises the counter by one
CounterExactness ==
  /\ []((\A k \in 1 .. CountPeers : ~Accounting("000", k)) =>
          counters[Client].source_packet_count = Len(EnqueuedUpstream))
  /\ [][\A m \in Modes : \A k \in 1 .. CountPeers :
          Counts(m, k) =>
            counters'[RoleOf(m)][CounterOf(m)] = counters[RoleOf(m)][CounterOf(m)] + 1]_vars

\* the largest size among the datagrams of a sequence
RECURSIVE Largest(_)
Largest(q) ==
  IF q = << >> THEN 0
  ELSE LET rest == Largest(Tail(q))
       IN IF PacketSize(Head(q)) > rest THEN PacketSize(Head(q)) ELSE rest

\* C32 (Largest-datagram counter): max_packet_size never decreases, and
\* whenever no client-source-receive worker is in its accounting it equals
\* the largest size among the inbound datagrams counted so far
LargestDatagram ==
  /\ []((\A k \in 1 .. CountPeers : ~Accounting("000", k)) =>
          counters[Client].max_packet_size = Largest(EnqueuedUpstream))
  /\ [][counters'[Client].max_packet_size >= counters[Client].max_packet_size]_vars

\* a receive worker reads, in its main loop, a datagram it accepts for
\* forwarding
Accepts(m, k) ==
  /\ proc[m][k].pc = "recv"
  /\ inbox[SocketOf(m, k)] # << >>
  /\ inbox'[SocketOf(m, k)] = Tail(inbox[SocketOf(m, k)])
  /\ ~Filtered(Head(inbox[SocketOf(m, k)]).data)
\* the queue of a receive worker after the step
QueueOfNext(m, k) ==
  IF PutsUpstream(m) THEN source_queue'[RoleOf(m)][k] ELSE destination_queue'[RoleOf(m)][k]
\* the admission worker reads a datagram it has a queue for
AwAccepts ==
  /\ aw.pc = "recv"
  /\ inbox[ServerSocket] # << >>
  /\ inbox'[ServerSocket] = Tail(inbox[ServerSocket])
  /\ Admission(Head(inbox[ServerSocket]).src).index # 0

\* C33 (Bounded queue, blocking producer): no upstream or downstream queue
\* holds more than PACKET_QUEUE_SIZE datagrams; a receive worker or the
\* admission worker that accepts a datagram for forwarding enqueues it at
\* once, or, the queue being full, holds it and blocks in put; a producer
\* leaves put only by enqueuing the datagram it holds
BoundedQueues ==
  /\ [](\A role \in Roles : \A k \in 1 .. 1 :
          /\ Len(source_queue[role][k]) <= PACKET_QUEUE_SIZE
          /\ Len(destination_queue[role][k]) <= PACKET_QUEUE_SIZE)
  /\ [][\A m \in ReceiveModes : \A k \in 1 .. 1 :
          /\ Accepts(m, k) =>
               LET data == Head(inbox[SocketOf(m, k)]).data
               IN \/ QueueOfNext(m, k) = Append(QueueOf(m, k), data)
                  \/ /\ Full(QueueOf(m, k))
                     /\ proc'[m][k].pc = "put"
                     /\ proc'[m][k].held = data
                     /\ QueueOfNext(m, k) = QueueOf(m, k)
          /\ (proc[m][k].pc = "put" /\ proc'[m][k] # proc[m][k]) =>
               /\ ~Full(QueueOf(m, k))
               /\ QueueOfNext(m, k) = Append(QueueOf(m, k), proc[m][k].held)]_vars
  /\ [][/\ AwAccepts =>
             LET data == Head(inbox[ServerSocket]).data
                 q == Admission(Head(inbox[ServerSocket]).src).index
             IN \/ source_queue'[Server][q] = Append(source_queue[Server][q], data)
                \/ /\ Full(source_queue[Server][q])
                   /\ aw'.pc = "put" /\ aw'.held = data /\ aw'.index = q
                   /\ source_queue' = source_queue
        /\ (aw.pc = "put" /\ aw' # aw) =>
             /\ ~Full(source_queue[Server][aw.index])
             /\ source_queue'[Server][aw.index] =
                  Append(source_queue[Server][aw.index], aw.held)]_vars
\* client-source-receive is blocked in put, holding the second payload of the
\* peer while the first one fills its queue
ProducersBlocked ==
  /\ proc["000"][1].pc = "put"
  /\ Len(source_queue[Client][1]) = PACKET_QUEUE_SIZE
  /\ proc["000"][1].held # Head(source_queue[Client][1])

\* a slot whose workers the supervisor has started
Started(k) == \A m \in ModesOf(Server) : proc[m][k].pc # "none"

\* C34 (Admission barrier): before the supervisor has started the workers of
\* every slot and set the child-processes-started event, the admission
\* worker reads no datagram from the public port, admits no peer and sets no
\* remote-peer flag; the event is set with every slot started
AdmissionBarrier ==
  /\ [](child_proc_started_event => \A k \in 1 .. 2 : Started(k))
  /\ [](~child_proc_started_event =>
          /\ aw.pc = "wait_started"
          /\ DOMAIN aw.dict = {}
          /\ \A k \in 1 .. 2 : aw.vacancy[k] /\ ~remote_peer_event[Server][k])
  /\ [][~child_proc_started_event' =>
          /\ Len(inbox'[ServerSocket]) >= Len(inbox[ServerSocket])
          /\ source_queue' = source_queue]_vars
\* a datagram waits on the public port, one slot is not started yet
WaitsAtBarrier ==
  /\ ~child_proc_started_event
  /\ inbox[ServerSocket] # << >>
  /\ Started(1) /\ ~Started(2)

\* a worker that is inside a recvfrom on the socket it was given
Reading(m, k) ==
  \/ m \in ReceiveModes /\ proc[m][k].pc \in {"recv", "ka_recv"}
  \/ m = "101" /\ proc[m][k].pc = "ka_recv"
\* the workers of a slot inside a recvfrom on one socket
ReadersOf(s, k) == {m \in Modes : Reading(m, k) /\ SocketOf(m, k) = s}
\* a step in which the worker takes a datagram from its socket
Reads(m, k) ==
  /\ Reading(m, k)
  /\ proc'[m][k] # proc[m][k]
  /\ Len(inbox'[SocketOf(m, k)]) < Len(inbox[SocketOf(m, k)])

\* C35 (Exclusive socket reads): no two workers of a slot are inside a read
\* of the same socket at a time; server-source-relay reads the relay socket
\* only while the link flag is unset and server-destination-receive only
\* once it is set, and after it is set server-source-relay reads no more
ExclusiveReads ==
  /\ [](\A k \in 1 .. 2 : \A s \in {ServerRelay(k), ServerSocket} :
          Cardinality(ReadersOf(s, k)) <= 1)
  /\ [](\A k \in 1 .. 2 :
          /\ Reading("101", k) => ~link_event[Server][k]
          /\ Reading("110", k) => link_event[Server][k])
  /\ [][\A k \in 1 .. 2 :
          /\ Reads("101", k) => ~link_event[Server][k]
          /\ Reads("110", k) => link_event[Server][k]
          /\ (link_event[Server][k] /\ link_event'[Server][k]) => ~Reading("101", k)']_vars
\* server-destination-receive is inside a read of the relay socket from
\* which server-source-relay has read the keep-alives of this incarnation
ReadsAfterLink ==
  /\ Reading("110", 1)
  /\ proc["101"][1].pc = "get"
  /\ proc["101"][1].pcr
  /\ proc["101"][1].addr = ClientSource(1)

\* the handler of slot k of an instance, once it is created
HandlerOf(role, k) == wiring[role].handlers[k]
Created(role) == 1 .. Len(wiring[role].handlers)

\* C36 (Port wiring): with accepted base ports, slot k of the server binds
\* relay port SERVER_BASE + k, slot k of the client sends its tunnel traffic
\* to port SERVER_BASE + k, which is the server's relay port of that slot,
\* and binds relay port CLIENT_BASE + k; the ports of different slots
\* differ, the sockets an instance binds have pairwise distinct ports, all
\* ports lie in PORTS_RANGE and every server slot listens on the one public
\* port
PortWiring ==
  [](/\ \A k \in Created(Server) :
          /\ HandlerOf(Server, k).relay_port = wiring[Server].server_relay_base_port + k
          /\ HandlerOf(Server, k).source_port = wiring[Server].iport
     /\ \A k \in Created(Client) :
          /\ HandlerOf(Client, k).source_port = wiring[Client].server_relay_base_port + k
          /\ HandlerOf(Client, k).relay_port = wiring[Client].client_relay_base_port + k
     /\ \A k \in Created(Client) \cap Created(Server) :
          HandlerOf(Client, k).source_port = HandlerOf(Server, k).relay_port
     /\ \A role \in Roles : \A k \in Created(role) :
          /\ InRange(HandlerOf(role, k).source_port)
          /\ InRange(HandlerOf(role, k).destination_port)
          /\ InRange(HandlerOf(role, k).relay_port)
          /\ \A j \in Created(role) : j # k =>
               /\ HandlerOf(role, j).relay_port # HandlerOf(role, k).relay_port
               /\ role = Client =>
                    HandlerOf(role, j).source_port # HandlerOf(role, k).source_port
     /\ wiring[Server].pc \in {"handlers", "started"} =>
          Cardinality(wiring[Server].bound) = 1 + Len(wiring[Server].handlers)
     /\ wiring[Client].pc \in {"handlers", "started"} =>
          Cardinality(wiring[Client].bound) = 2 * Len(wiring[Client].handlers))
\* both instances have created the handlers of the highest number of slots,
\* the last server relay port being the last port of the range
WiredToTheLimit ==
  /\ \A role \in Roles : wiring[role].pc = "started"
  /\ Len(wiring[Client].handlers) = WiringPeers
  /\ HandlerOf(Server, WiringPeers).relay_port = PORTS_RANGE[2]

\* the address the scan reads from the reverse entry of slot k
ReverseEntry(k) == <<inet_ntoa(AwAddrArray[k]), AwPortArray[k]>>

\* C37 (Admission table consistency): in every state of the admission worker
\* the forward map is injective, a slot is taken exactly when some address
\* maps to it, and the address the eviction scan reads from the reverse entry
\* of a taken slot is in the forward map, mapped to that slot
AdmissionTable ==
  /\ \A a, b \in DOMAIN aw.dict : aw.dict[a] = aw.dict[b] => a = b
  /\ \A k \in Slots : ~aw.vacancy[k] <=> MappedTo(aw.dict, k) # {}
  /\ \A k \in Slots : ~aw.vacancy[k] =>
       /\ ReverseEntry(k) \in DOMAIN aw.dict
       /\ aw.dict[ReverseEntry(k)] = k
\* the scan has evicted peer A from slot 1 in favour of peer C while peer B
\* keeps slot 2
TableAfterScan ==
  /\ DOMAIN aw.dict = {PeerAddr("B"), PeerAddr("C")}
  /\ aw.dict[PeerAddr("C")] = 1
  /\ aw.dict[PeerAddr("B")] = 2
  /\ ReverseEntry(1) = PeerAddr("C")

\* the address server-destination-relay rebuilds from shared entry k
SharedEntry(k) == <<inet_ntoa(remote_peer_addr_array[k]), remote_peer_port_array[k]>>

\* C38 (Shared peer-slot memory agrees with the admission table): for every
\* taken slot k the shared address and port entry k, which
\* server-destination-relay reads, is the address the forward map associates
\* with k, and the shared entry of a slot the worker has cleared is zero
SharedPeerSlots ==
  \A k \in Slots :
    IF aw.vacancy[k]
      THEN remote_peer_addr_array[k] = 0 /\ remote_peer_port_array[k] = 0
      ELSE MappedTo(aw.dict, k) = {SharedEntry(k)}

\* server-source-relay of slot k takes a payload from the upstream queue
TakesUpstream(k) ==
  /\ proc["101"][k].pc = "get"
  /\ source_queue[Server][k] # << >>
  /\ source_queue'[Server][k] = Tail(source_queue[Server][k])
\* server-source-relay of slot k takes a datagram in its keep-alive loop
KeepAliveRead(k) ==
  /\ proc["101"][k].pc = "ka_recv"
  /\ proc'["101"][k].pc = "ka_while"

\* C39 (Upstream tunnel target): server-source-relay transmits an upstream
\* payload only with the link flag set, and transmits it to the sender of
\* the last datagram it read in its keep-alive loop, whatever that datagram
\* and its sender were; the address stays the same until the incarnation
\* ends
UpstreamTarget ==
  [][\A k \in 1 .. 1 :
       /\ KeepAliveRead(k) =>
            proc'["101"][k].addr = Head(inbox[ServerRelay(k)]).src
       /\ (~KeepAliveRead(k) /\ is_alive(proc["101"][k]) /\ is_alive(proc'["101"][k])
             /\ proc["101"][k].pc # "start") =>
            proc'["101"][k].addr = proc["101"][k].addr
       /\ TakesUpstream(k) =>
            /\ link_event[Server][k]
            /\ inbox' = sendto(inbox, ServerRelay(k), Head(source_queue[Server][k]),
                               proc["101"][k].addr)]_vars
\* the keep-alive loop has ended on a datagram that a remote peer sent to the
\* relay port, and the peer's own payload has been sent back to it
SentToLastSender ==
  /\ proc["101"][1].pc = "get"
  /\ proc["101"][1].addr = PeerAddr("A")
  /\ proc["101"][1].held = "P1"
  /\ \E i \in DOMAIN inbox[PeerAddr("A")] :
       inbox[PeerAddr("A")][i] = Datagram(ServerRelay(1), "A1")
====
